---------------------------- MODULE Spec2Model ----------------------------
(***************************************************************************)
(* RentWeb: the cache-aside layer (app/lib/cache.ts), the fixed-window     *)
(* rate limiter (app/lib/rate-limit.ts) and the ticket service that uses   *)
(* them, over a key-value store with expiring keys.                        *)
(*                                                                         *)
(* Time is discrete: one Tick is one second of the store's clock.          *)
(***************************************************************************)
EXTENDS Integers, Sequences, FiniteSets, TLC

VARIABLES
    store,      \* the key-value store: key -> [val: JSON text, ttl: seconds left or NoExpiry]
    reachable,  \* whether getRedis() and the next store command succeed
    call,       \* per caller: the CacheService / RateLimiter / TicketService call in progress or just returned
    hist,       \* history (ghost) records the properties refer to
    tickets,    \* the relational store's Ticket table (source of truth)
    conn,       \* RedisClient: the shared handle, the isConnecting flag, the attempt in flight
    invoices,   \* the relational store's Invoice table
    properties, \* the relational store's Property table
    inspections \* the relational store's Inspection table

vars == <<store, reachable, call, hist, tickets, conn, invoices, properties, inspections>>

----------------------------------------------------------------------------
(* Bounds of the model *)

\* largest TTL / window (seconds) a caller passes
MaxTtl == 2
\* seconds the history clocks count before they saturate
MaxAge == 3
\* largest value a counter key is driven to
MaxCount == 6
\* tickets the Ticket table grows to
MaxTickets == 3
\* handles RedisClient creates (connection attempts it starts)
MaxHandles == 3
\* invoices the Invoice table grows to
MaxInvoices == 2
\* latest reading of the wall clock
MaxTime == 2
\* inspections the Inspection table grows to
MaxInspections == 1

----------------------------------------------------------------------------
(* JavaScript values and their JSON text *)

Null == [t |-> "null"]
NaN == [t |-> "nan"]
Num(n) == [t |-> "num", v |-> n]
Str(s) == [t |-> "str", v |-> s]
Obj(o) == [t |-> "obj", v |-> o]

\* a Date (here the n-th instant at which a row was created), and the ISO
\* string JSON.stringify writes for it
Date(n) == [t |-> "date", v |-> n]
IsoText(n) == [t |-> "iso", v |-> n]

\* a table row as JSON.stringify writes it: its Date becomes a string
JsonRow(row) == [row EXCEPT !.createdAt = IsoText(@.v)]

\* JSON.stringify: NaN has no JSON form and is written as null; a number is
\* written as its digits, which is also how the store keeps a counter; an
\* object (here always a list result: rows under `data`) is written with
\* every Date turned into its ISO string, and JSON.parse leaves the strings.
Stringify(v) ==
    [json |-> IF v = NaN THEN Null
              ELSE IF v.t = "obj"
              THEN Obj([v.v EXCEPT !.data = [i \in 1..Len(@) |-> JsonRow(@[i])]])
              ELSE v]

\* JSON.parse of a text written by Stringify
Parse(data) == data.json

\* the text the store keeps for the integer n
IntText(n) == Stringify(Num(n))

IsIntText(data) == data.json.t = "num"

----------------------------------------------------------------------------
(* Keys and glob patterns: sequences of symbols; ":" separates segments *)

Sep == ":"

RECURSIVE JoinKey(_)
JoinKey(parts) ==
    IF Len(parts) = 0 THEN <<>>
    ELSE IF Len(parts) = 1 THEN Head(parts)
    ELSE Head(parts) \o <<Sep>> \o JoinKey(Tail(parts))

\* CacheKeys.rateLimit: `ratelimit:${action}:${userId}`
RateLimitKey(userId, action) == JoinKey(<<(<<"ratelimit">>), action, userId>>)

\* CacheKeys.ticketsList: `tickets:${role}:${userId}`
TicketsListKey(userId, role) == JoinKey(<<(<<"tickets">>), (<<role>>), userId>>)

\* the store's glob match (KEYS pattern): "*" matches any run of symbols,
\* "?" exactly one, anything else itself
RECURSIVE GlobMatch(_, _)
GlobMatch(pat, key) ==
    IF pat = <<>> THEN key = <<>>
    ELSE IF Head(pat) = "*"
         THEN GlobMatch(Tail(pat), key)
              \/ (key # <<>> /\ GlobMatch(pat, Tail(key)))
    ELSE IF Head(pat) = "?"
         THEN key # <<>> /\ GlobMatch(Tail(pat), Tail(key))
    ELSE key # <<>> /\ Head(key) = Head(pat) /\ GlobMatch(Tail(pat), Tail(key))

----------------------------------------------------------------------------
(* The store's commands, as the client issues them *)

NoExpiry == -1

Entry(data, ttl) == [val |-> data, ttl |-> ttl]

Put(s, k, e) == [x \in DOMAIN s \cup {k} |-> IF x = k THEN e ELSE s[x]]

\* GET: the text, or null for a missing key
RedisGet(s, k) == IF k \in DOMAIN s THEN s[k].val ELSE Null

\* SETEX key ttl data
RedisSetEx(s, k, ttl, data) == Put(s, k, Entry(data, ttl))

\* DEL key [key ...]
RedisDel(s, ks) == [x \in DOMAIN s \ ks |-> s[x]]

\* KEYS pattern
RedisKeys(s, pat) == {k \in DOMAIN s : GlobMatch(pat, k)}

\* EXISTS key
RedisExists(s, k) == IF k \in DOMAIN s THEN 1 ELSE 0

\* SET key data NX EX ttl: "OK" when the key was absent, null otherwise
RedisSetNX(s, k, data, ttl) ==
    IF k \in DOMAIN s
    THEN [store |-> s, reply |-> Null]
    ELSE [store |-> Put(s, k, Entry(data, ttl)), reply |-> Str("OK")]

\* INCR key: an absent key counts from 0 and gets no expiry; a present key
\* keeps its expiry; a value that is not an integer is an error.
RedisIncr(s, k) ==
    IF k \notin DOMAIN s
    THEN [store |-> Put(s, k, Entry(IntText(1), NoExpiry)), ok |-> TRUE, reply |-> 1]
    ELSE IF IsIntText(s[k].val)
    THEN LET n == Parse(s[k].val).v + 1
         IN [store |-> Put(s, k, Entry(IntText(n), s[k].ttl)), ok |-> TRUE, reply |-> n]
    ELSE [store |-> s, ok |-> FALSE, reply |-> 0]

\* EXPIRE key ttl: true when the key exists
RedisExpire(s, k, ttl) ==
    IF k \in DOMAIN s
    THEN [store |-> Put(s, k, Entry(s[k].val, ttl)), reply |-> TRUE]
    ELSE [store |-> s, reply |-> FALSE]

\* one second passes: every expiring key loses a second, and is gone at 0
Expired(s) == {k \in DOMAIN s : s[k].ttl = 1}

Elapse(s) ==
    [k \in DOMAIN s \ Expired(s) |->
        IF s[k].ttl = NoExpiry THEN s[k] ELSE Entry(s[k].val, s[k].ttl - 1)]


----------------------------------------------------------------------------
(* CacheService: every primitive gets the connection and issues one        *)
(* command inside try/catch; `up` says whether both succeed.  Each returns *)
(* the store after the call and the value the caller sees.                 *)

\* CacheService.get
CacheGet(s, up, k) ==
    IF ~up THEN Null
    ELSE LET data == RedisGet(s, k)
         IN IF data = Null THEN Null ELSE Parse(data)

\* a set that drops the ttl (SET instead of SETEX)
CacheSetNoExpiry(s, up, k, v, ttl) ==
    IF ~up \/ ttl < 1
    THEN [store |-> s, ret |-> FALSE]
    ELSE [store |-> RedisSetEx(s, k, NoExpiry, Stringify(v)), ret |-> TRUE]

\* CacheService.set (SETEX rejects a ttl that is not positive)
CacheSet(s, up, k, v, ttl) ==
    IF ~up \/ ttl < 1
    THEN [store |-> s, ret |-> FALSE]
    ELSE [store |-> RedisSetEx(s, k, ttl, Stringify(v)), ret |-> TRUE]

\* a del that reports whether a key was removed
CacheDelIfPresent(s, up, k) ==
    IF ~up
    THEN [store |-> s, ret |-> FALSE]
    ELSE [store |-> RedisDel(s, {k}), ret |-> k \in DOMAIN s]

\* CacheService.del
CacheDel(s, up, k) ==
    IF ~up
    THEN [store |-> s, ret |-> FALSE]
    ELSE [store |-> RedisDel(s, {k}), ret |-> TRUE]

\* CacheService.delPattern, first await: the keys the pattern matches
CacheDelPatternKeys(s, up, pat) == IF ~up THEN {} ELSE RedisKeys(s, pat)

\* a delete of the first key found instead of the batch
CacheDelPatternDelOne(s, up, found) ==
    IF ~up
    THEN [store |-> s, ret |-> 0]
    ELSE [store |-> RedisDel(s, {CHOOSE k \in found : TRUE}), ret |-> Cardinality(found)]

\* CacheService.delPattern, second await: delete them in one batch
CacheDelPatternDel(s, up, found) ==
    IF ~up
    THEN [store |-> s, ret |-> 0]
    ELSE [store |-> RedisDel(s, found), ret |-> Cardinality(found)]

\* CacheService.exists
CacheExists(s, up, k) == up /\ RedisExists(s, k) = 1

\* a setNX without the NX flag: the key is overwritten
CacheSetNXOverwrite(s, up, k, v, ttl) ==
    IF ~up \/ ttl < 1
    THEN [store |-> s, ret |-> FALSE]
    ELSE [store |-> RedisSetEx(s, k, ttl, Stringify(v)), ret |-> TRUE]

\* CacheService.setNX
CacheSetNX(s, up, k, v, ttl) ==
    IF ~up \/ ttl < 1
    THEN [store |-> s, ret |-> FALSE]
    ELSE LET r == RedisSetNX(s, k, Stringify(v), ttl)
         IN [store |-> r.store, ret |-> (r.reply = Str("OK"))]

\* an incr that reads the counter and writes it back only when it was absent
CacheIncrLost(s, up, k) ==
    IF ~up
    THEN [store |-> s, ret |-> 0]
    ELSE LET r == RedisIncr(s, k)
         IN IF r.ok
            THEN [store |-> IF k \in DOMAIN s THEN s ELSE r.store, ret |-> r.reply]
            ELSE [store |-> s, ret |-> 0]

\* an incr whose catch returns -1
CacheIncrMinusOne(s, up, k) ==
    IF ~up
    THEN [store |-> s, ret |-> -1]
    ELSE LET r == RedisIncr(s, k)
         IN IF r.ok THEN [store |-> r.store, ret |-> r.reply]
            ELSE [store |-> s, ret |-> -1]

\* CacheService.incr
CacheIncr(s, up, k) ==
    IF ~up
    THEN [store |-> s, ret |-> 0]
    ELSE LET r == RedisIncr(s, k)
         IN IF r.ok THEN [store |-> r.store, ret |-> r.reply]
            ELSE [store |-> s, ret |-> 0]

\* an expire that sets half the time asked for
CacheExpireHalf(s, up, k, ttl) ==
    IF ~up \/ k \notin DOMAIN s
    THEN [store |-> s, ret |-> FALSE]
    ELSE [store |-> Put(s, k, Entry(s[k].val, (ttl + 1) \div 2)), ret |-> TRUE]

\* CacheService.expire
CacheExpire(s, up, k, ttl) ==
    IF ~up
    THEN [store |-> s, ret |-> FALSE]
    ELSE LET r == RedisExpire(s, k, ttl)
         IN [store |-> r.store, ret |-> r.reply]

----------------------------------------------------------------------------
(* Callers *)

\* a call made by no route handler
NoRoute == [route |-> "none"]

\* a caller with no call yet
Idle ==
    [op |-> "none", pc |-> "idle", key |-> <<>>, pat |-> <<>>, val |-> Null,
     ttl |-> 0, found |-> {}, data |-> Null, calls |-> 0, ret |-> Null,
     up |-> TRUE, pre |-> <<>>, via |-> NoRoute]

Free(p) == call[p].pc \in {"idle", "done"}

Done(p, rec) == call' = [call EXCEPT ![p] = [pc |-> "done"] @@ rec @@ Idle]

\* history: a write to the keys ks ends what was recorded about them
Forget(f, ks) == [k \in DOMAIN f \ ks |-> f[k]]

Touched(h, ks) == [h EXCEPT !.gos = Forget(@, ks), !.set = Forget(@, ks)]

\* the keys whose reads and writes the read-through histories follow
Watched == {<<"rt", Sep, "k">>}

Noted(f, k, x) == IF k \in Watched THEN Put(f, k, x) ELSE f

\* the keys whose expiry the setNX history notes
Raced == {<<"lock", Sep, "k">>}

Older(n) == IF n < MaxAge THEN n + 1 ELSE n


----------------------------------------------------------------------------
(* Calls of the CacheService primitives.  A primitive is one store command, *)
(* so its call is one step; delPattern and getOrSet await twice or more.    *)

Get(p, k) ==
    /\ Free(p)
    /\ Done(p, [op |-> "get", key |-> k, up |-> reachable,
                ret |-> CacheGet(store, reachable, k),
                pre |-> IF k \in DOMAIN hist.set THEN <<hist.set[k]>> ELSE <<>>])
    /\ UNCHANGED <<store, reachable, hist, tickets, conn, invoices, properties, inspections>>

Set(p, k, v, ttl) ==
    /\ Free(p)
    /\ LET r == CacheSet(store, reachable, k, v, ttl)
       IN /\ store' = r.store
          /\ Done(p, [op |-> "set", key |-> k, val |-> v, ttl |-> ttl,
                      up |-> reachable, ret |-> r.ret])
          /\ hist' = IF r.ret
                     THEN [Touched(hist, {k}) EXCEPT
                             !.set = Noted(@, k, [ttl |-> ttl, age |-> 0])]
                     ELSE hist
    /\ UNCHANGED <<reachable, tickets, conn, invoices, properties, inspections>>

Del(p, k) ==
    /\ Free(p)
    /\ LET r == CacheDel(store, reachable, k)
       IN /\ store' = r.store
          /\ Done(p, [op |-> "del", key |-> k, up |-> reachable, ret |-> r.ret,
                      pre |-> <<store>>])
          /\ hist' = IF r.ret THEN Touched(hist, {k}) ELSE hist
    /\ UNCHANGED <<reachable, tickets, conn, invoices, properties, inspections>>

Exists(p, k) ==
    /\ Free(p)
    /\ Done(p, [op |-> "exists", key |-> k, up |-> reachable,
                ret |-> CacheExists(store, reachable, k)])
    /\ UNCHANGED <<store, reachable, hist, tickets, conn, invoices, properties, inspections>>

SetNX(p, k, v, ttl) ==
    /\ Free(p)
    /\ LET r == CacheSetNX(store, reachable, k, v, ttl)
       IN /\ store' = r.store
          /\ Done(p, [op |-> "setNX", key |-> k, val |-> v, ttl |-> ttl,
                      up |-> reachable, ret |-> r.ret])
          /\ hist' = IF r.ret THEN Touched(hist, {k}) ELSE hist
    /\ UNCHANGED <<reachable, tickets, conn, invoices, properties, inspections>>

Incr(p, k) ==
    /\ Free(p)
    /\ LET r == CacheIncr(store, reachable, k)
       IN /\ r.ret <= MaxCount
          /\ store' = r.store
          /\ Done(p, [op |-> "incr", key |-> k, up |-> reachable, ret |-> r.ret])
          /\ hist' = IF r.ret > 0 THEN Touched(hist, {k}) ELSE hist
    /\ UNCHANGED <<reachable, tickets, conn, invoices, properties, inspections>>

Expire(p, k, ttl) ==
    /\ Free(p)
    /\ LET r == CacheExpire(store, reachable, k, ttl)
       IN /\ store' = r.store
          /\ Done(p, [op |-> "expire", key |-> k, ttl |-> ttl,
                      up |-> reachable, ret |-> r.ret])
          /\ hist' = IF r.ret THEN Touched(hist, {k}) ELSE hist
    /\ UNCHANGED <<reachable, tickets, conn, invoices, properties, inspections>>

\* delPattern up to `await redis.keys(pattern)`; no key found, or a failure,
\* returns 0 at once
DelPatternKeys(p, pat) ==
    /\ Free(p)
    /\ LET found == CacheDelPatternKeys(store, reachable, pat)
           rec == [op |-> "delPattern", pat |-> pat, found |-> found,
                   up |-> reachable, ret |-> 0, pre |-> <<store>>]
       IN IF found = {}
          THEN Done(p, rec)
          ELSE call' = [call EXCEPT ![p] = rec @@ [pc |-> "dp_del"] @@ Idle]
    /\ UNCHANGED <<store, reachable, hist, tickets, conn, invoices, properties, inspections>>

\* delPattern from `await redis.del(keys)` to its return
DelPatternDel(p) ==
    /\ call[p].pc = "dp_del"
    /\ call[p].op = "delPattern"
    /\ LET r == CacheDelPatternDel(store, reachable, call[p].found)
       IN /\ store' = r.store
          /\ Done(p, [ret |-> r.ret, up |-> call[p].up /\ reachable,
                      pre |-> <<store>>] @@ call[p])
          /\ hist' = IF reachable THEN Touched(hist, call[p].found) ELSE hist
    /\ UNCHANGED <<reachable, tickets, conn, invoices, properties, inspections>>

----------------------------------------------------------------------------
(* The environment: time and the connection to the store *)

Tick ==
    /\ store' = Elapse(store)
    /\ hist' = [hist EXCEPT
                  !.gos = Forget(@, Expired(store)),
                  !.gone = @ \cup (Expired(store) \cap Raced),
                  !.win = [k \in DOMAIN @ |->
                             IF @[k].age < 0 THEN @[k]
                             ELSE IF k \in Expired(store)
                             THEN [@[k] EXCEPT !.age = Older(@), !.got = <<>>]
                             ELSE [@[k] EXCEPT !.age = Older(@)]],
                  !.burst = LET Aged == [i \in DOMAIN @ |-> @[i] + 1]
                                Recent(a) == a <= MaxTtl
                            IN SelectSeq(Aged, Recent),
                  !.set = [k \in DOMAIN @ |-> [@[k] EXCEPT !.age = Older(@)]]]
    /\ UNCHANGED <<reachable, call, tickets, conn, invoices, properties, inspections>>

\* the connection drops, or the store stops answering
Outage ==
    /\ reachable
    /\ reachable' = FALSE
    /\ UNCHANGED <<store, call, hist, tickets, conn, invoices, properties, inspections>>

Recover ==
    /\ ~reachable
    /\ reachable' = TRUE
    /\ UNCHANGED <<store, call, hist, tickets, conn, invoices, properties, inspections>>


----------------------------------------------------------------------------
(* CacheService.getOrSet: get, then on a miss the producer, then set *)

\* `const cached = await this.get(key); if (cached !== null) return cached`,
\* on behalf of the request req (<<>> for a direct call), the history
\* becoming h
GetOrSetGetFor(p, k, ttl, req, h) ==
    /\ Free(p)
    /\ LET cached == CacheGet(store, reachable, k)
           rec == [op |-> "getOrSet", key |-> k, ttl |-> ttl, up |-> reachable,
                   down |-> ~reachable, req |-> req,
                   pre |-> [absent |-> k \notin DOMAIN store,
                            gos |-> IF k \in DOMAIN hist.gos
                                    THEN <<hist.gos[k]>> ELSE <<>>,
                            set |-> IF k \in DOMAIN hist.set
                                    THEN <<hist.set[k]>> ELSE <<>>]]
       IN IF cached # Null
          THEN Done(p, rec @@ [ret |-> cached])
          ELSE call' = [call EXCEPT ![p] = rec @@ [pc |-> "gos_fetch"] @@ Idle]
    /\ hist' = h
    /\ UNCHANGED <<store, reachable, tickets, conn, invoices, properties, inspections>>

GetOrSetGet(p, k, ttl) == GetOrSetGetFor(p, k, ttl, <<>>, hist)

\* `const data = await fetcher()` resolves with v
GetOrSetFetch(p, v) ==
    /\ call[p].pc = "gos_fetch"
    /\ call' = [call EXCEPT ![p] = [pc |-> "gos_set", data |-> v,
                                    calls |-> call[p].calls + 1] @@ call[p]]
    /\ UNCHANGED <<store, reachable, hist, tickets, conn, invoices, properties, inspections>>

\* a rejection that is cached as null before null is returned
GetOrSetFetchFailsCached(p) ==
    /\ call[p].pc = "gos_fetch"
    /\ store' = CacheSet(store, reachable, call[p].key, Null, call[p].ttl).store
    /\ Done(p, [ret |-> Null, data |-> [t |-> "rejected"],
                calls |-> call[p].calls + 1] @@ call[p])
    /\ UNCHANGED <<reachable, hist, tickets, conn, invoices, properties, inspections>>

\* `await fetcher()` rejects: caught, logged, null returned
GetOrSetFetchFails(p) ==
    /\ call[p].pc = "gos_fetch"
    /\ Done(p, [ret |-> Null, data |-> [t |-> "rejected"],
                calls |-> call[p].calls + 1] @@ call[p])
    /\ UNCHANGED <<store, reachable, hist, tickets, conn, invoices, properties, inspections>>

\* a write that leaves an entry another call has written meanwhile
GetOrSetSetFirst(p) ==
    /\ call[p].pc = "gos_set"
    /\ LET k == call[p].key
           r == CacheSetNX(store, reachable, k, call[p].data, call[p].ttl)
       IN /\ store' = r.store
          /\ Done(p, [ret |-> call[p].data, up |-> call[p].up /\ reachable,
                      down |-> call[p].down /\ ~reachable] @@ call[p])
          /\ hist' = IF reachable
                     THEN [Touched(hist, {k}) EXCEPT !.gos = Noted(@, k, call[p].data)]
                     ELSE hist
    /\ UNCHANGED <<reachable, tickets, conn, invoices, properties, inspections>>

\* a getOrSet that returns null when its write fails
GetOrSetSetStrict(p) ==
    /\ call[p].pc = "gos_set"
    /\ LET k == call[p].key
           r == CacheSet(store, reachable, k, call[p].data, call[p].ttl)
       IN /\ store' = r.store
          /\ Done(p, [ret |-> IF r.ret THEN call[p].data ELSE Null,
                      up |-> call[p].up /\ reachable,
                      down |-> call[p].down /\ ~reachable] @@ call[p])
          /\ hist' = IF r.ret
                     THEN [Touched(hist, {k}) EXCEPT !.gos = Noted(@, k, call[p].data)]
                     ELSE hist
    /\ UNCHANGED <<reachable, tickets, conn, invoices, properties, inspections>>

\* `await this.set(key, data, ttl); return data`.  up: the store answered
\* the lookup and the write; down: it answered neither
GetOrSetSet(p) ==
    /\ call[p].pc = "gos_set"
    /\ LET k == call[p].key
           r == CacheSet(store, reachable, k, call[p].data, call[p].ttl)
       IN /\ store' = r.store
          /\ Done(p, [ret |-> call[p].data, up |-> call[p].up /\ reachable,
                      down |-> call[p].down /\ ~reachable] @@ call[p])
          /\ hist' = IF r.ret
                     THEN [Touched(hist, {k}) EXCEPT !.gos = Noted(@, k, call[p].data)]
                     ELSE hist
    /\ UNCHANGED <<reachable, tickets, conn, invoices, properties, inspections>>

----------------------------------------------------------------------------
(* Initial state: an empty store, a working connection, no call made *)

Procs == {"p1", "p2"}

\* `private client: RedisClientType | null = null`: null, or the number of
\* a handle in conn.handles
NoHandle == 0

\* the Invoice table before any invoice is made
NoInvoices == <<>>

\* the Inspection table before any inspection is made
NoInspections == <<>>

\* no tenant: a property's tenantId is null
NoTenant == <<>>

\* the Property table to begin with: who manages and who rents each property
Properties ==
    [pr1 |-> [agentId |-> <<"a1">>, tenantId |-> <<"t1">>],
     pr2 |-> [agentId |-> <<"a1">>, tenantId |-> <<"t2">>]]

Empty == [x \in {} |-> Null]

Init ==
    /\ store = Empty
    /\ reachable = TRUE
    /\ call = [p \in Procs |-> Idle]
    /\ hist = [gos |-> Empty, set |-> Empty, gone |-> {}, win |-> Empty,
               last |-> <<>>, delivered |-> {}, burst |-> <<>>]
    /\ tickets = <<>>
    /\ conn = [client |-> NoHandle, isConnecting |-> FALSE, handles |-> <<>>]
    /\ invoices = NoInvoices
    /\ properties = Properties
    /\ inspections = NoInspections

Ttls == 1..MaxTtl

----------------------------------------------------------------------------
(* SpecPrim: one caller uses the primitives on the keys ns:a:1, ns:a:2 and  *)
(* ns:b:1 while seconds pass and the connection comes and goes.            *)

NsKeys == {<<"ns", Sep, "a", Sep, "1">>, <<"ns", Sep, "a", Sep, "2">>,
           <<"ns", Sep, "b", Sep, "1">>}

CounterKey == <<"ns", Sep, "b", Sep, "1">>

NsPatterns == {<<"ns", Sep, "a", Sep, "*">>, <<"ns", Sep, "*", Sep, "1">>,
               <<"ns", Sep, "b", Sep, "1">>, <<"ns", Sep, "c", Sep, "*">>}

PrimValues == {Str("x")}

NextPrim ==
    \/ \E k \in NsKeys : Get("p1", k)
    \/ \E k \in NsKeys, v \in PrimValues, ttl \in Ttls : Set("p1", k, v, ttl)
    \/ \E k \in NsKeys : Del("p1", k)
    \/ \E k \in NsKeys : Exists("p1", k)
    \/ \E k \in NsKeys, v \in PrimValues, ttl \in Ttls : SetNX("p1", k, v, ttl)
    \/ Incr("p1", CounterKey)
    \/ \E k \in NsKeys, ttl \in Ttls : Expire("p1", k, ttl)
    \/ \E pat \in NsPatterns : DelPatternKeys("p1", pat)
    \/ DelPatternDel("p1")
    \/ Tick
    \/ Outage
    \/ Recover

SpecPrim == Init /\ [][NextPrim]_vars

----------------------------------------------------------------------------
(* SpecRT: one caller reads through the cache on a watched key, with the   *)
(* writes that can end an entry's life in between.                         *)

RtValues == {Null, NaN, Num(0), Str("")}

RtPatterns == {<<"rt", Sep, "*">>}

NextRT ==
    \/ \E k \in Watched, ttl \in Ttls : GetOrSetGet("p1", k, ttl)
    \/ \E v \in RtValues : GetOrSetFetch("p1", v)
    \/ GetOrSetFetchFails("p1")
    \/ GetOrSetSet("p1")
    \/ \E k \in Watched : Get("p1", k)
    \/ \E k \in Watched, v \in RtValues, ttl \in Ttls : Set("p1", k, v, ttl)
    \/ \E k \in Watched : Del("p1", k)
    \/ \E k \in Watched, ttl \in Ttls : Expire("p1", k, ttl)
    \/ \E pat \in RtPatterns : DelPatternKeys("p1", pat)
    \/ DelPatternDel("p1")
    \/ Tick
    \/ Outage
    \/ Recover

SpecRT == Init /\ [][NextRT]_vars


----------------------------------------------------------------------------
(* Properties of the read-through cache (SpecRT) *)

Resolved(c) == c.data # [t |-> "rejected"]

\* C1 (as claimed).  With the store reachable: a getOrSet that found its key
\* absent invoked the producer exactly once and returned the producer's
\* value; and a getOrSet on a key that an earlier getOrSet cached, with the
\* ttl not elapsed and no write or delete on the key since, invoked no
\* producer and returned that same value.
C1_ReadThrough ==
    \A p \in Procs :
        LET c == call[p]
        IN (c.op = "getOrSet" /\ c.pc = "done" /\ c.up) =>
              /\ (c.pre.absent /\ Resolved(c)) => (c.calls = 1 /\ c.ret = c.data)
              /\ (c.pre.gos # <<>>) => (c.calls = 0 /\ c.ret = c.pre.gos[1])

\* C9.  After a successful set(key, value, ttl) and no later write to the key,
\* once ttl seconds have passed get(key) returns null and a getOrSet(key)
\* invokes its producer.
C9_TtlExpiry ==
    \A p \in Procs :
        LET c == call[p]
        IN /\ (c.op = "get" /\ c.pc = "done" /\ c.pre # <<>>
                  /\ c.pre[1].age >= c.pre[1].ttl) => c.ret = Null
           /\ (c.op = "getOrSet" /\ c.pc = "done" /\ c.pre.set # <<>>
                  /\ c.pre.set[1].age >= c.pre.set[1].ttl) => c.calls = 1

\* C9 happens: a getOrSet on a key whose set has outlived its ttl has run its
\* producer and returned the producer's value, the store being reachable.
C9_Witness ==
    LET c == call["p1"]
    IN /\ c.op = "getOrSet" /\ c.pc = "done" /\ c.up
       /\ c.pre.set # <<>> /\ c.pre.set[1].age >= c.pre.set[1].ttl
       /\ c.calls = 1 /\ c.ret = Str("")

----------------------------------------------------------------------------
(* Properties of the primitives (SpecPrim) *)

\* C5.  A primitive whose connection or command failed returns its neutral
\* value: get null, set/del/exists/setNX/expire false, delPattern/incr 0.
C5_FailureContainment ==
    \A p \in Procs :
        LET c == call[p]
        IN (c.pc = "done" /\ ~c.up) =>
              /\ c.op = "get" => c.ret = Null
              /\ c.op \in {"set", "del", "exists", "setNX", "expire"} => c.ret = FALSE
              /\ c.op \in {"delPattern", "incr"} => c.ret = 0

\* C5 happens: a delPattern found keys and then lost the store before its
\* batch delete, with the keys still there.
C5_Witness ==
    LET c == call["p1"]
    IN /\ c.op = "delPattern" /\ c.pc = "done" /\ ~c.up
       /\ c.found # {} /\ c.found \subseteq DOMAIN store

\* what a pattern with at most one "*" and no "?" matches: itself, or the
\* keys that begin with what precedes the star and end with what follows it
StarAt(pat) == CHOOSE i \in 1..Len(pat) : pat[i] = "*"

Matches(pat, k) ==
    IF \A i \in 1..Len(pat) : pat[i] # "*"
    THEN k = pat
    ELSE LET before == SubSeq(pat, 1, StarAt(pat) - 1)
             after == SubSeq(pat, StarAt(pat) + 1, Len(pat))
         IN /\ Len(k) >= Len(before) + Len(after)
            /\ SubSeq(k, 1, Len(before)) = before
            /\ SubSeq(k, Len(k) - Len(after) + 1, Len(k)) = after

Matching(s, pat) == {k \in DOMAIN s : Matches(pat, k)}

\* C8.  With the store reachable, delPattern(p) enumerates exactly the keys
\* that match p; its delete removes them all and leaves every other key with
\* its value and TTL; it returns how many matched, 0 when none did.
C8_PatternExact ==
    [][\A p \in Procs :
          /\ (/\ Free(p) /\ reachable
              /\ call'[p].op = "delPattern"
              /\ (call[p].op # "delPattern" \/ call'[p] # call[p])) =>
                /\ call'[p].found = Matching(store, call'[p].pat)
                /\ (call'[p].found = {}) = (call'[p].pc = "done")
                /\ call'[p].pc = "done" => call'[p].ret = 0
                /\ store' = store
          /\ (call[p].pc = "dp_del" /\ call'[p].pc = "done" /\ call[p].up /\ reachable) =>
                /\ store' = [k \in DOMAIN store \ call[p].found |-> store[k]]
                /\ Matching(store', call[p].pat) = {}
                /\ call'[p].ret = Cardinality(call[p].found)
      ]_vars

\* C8 happens: delPattern("ns:a:*") has removed ns:a:1 and ns:a:2, returned 2
\* and left ns:b:1.
C8_Witness ==
    LET c == call["p1"]
    IN /\ c.op = "delPattern" /\ c.pc = "done" /\ c.up
       /\ c.pat = <<"ns", Sep, "a", Sep, "*">>
       /\ c.found = {<<"ns", Sep, "a", Sep, "1">>, <<"ns", Sep, "a", Sep, "2">>}
       /\ c.ret = 2
       /\ DOMAIN store = {<<"ns", Sep, "b", Sep, "1">>}


----------------------------------------------------------------------------
(* SpecNX: two callers call setNX on the same key at the same time.  A call *)
(* is in flight from its start (getRedis, JSON.stringify) to the one SET   *)
(* NX EX command that decides it.                                          *)

InStore(s, k) == IF k \in DOMAIN s THEN <<s[k]>> ELSE <<>>

SetNXBegin(p, k, v, ttl) ==
    /\ call[p].pc = "idle"
    /\ call' = [call EXCEPT ![p] =
                  [op |-> "setNX", pc |-> "nx_cmd", key |-> k, val |-> v, ttl |-> ttl,
                   pre |-> [absent |-> k \notin DOMAIN store,
                            overlap |-> \E q \in Procs \ {p} : call[q].pc = "nx_cmd"]]
                  @@ Idle]
    /\ UNCHANGED <<store, reachable, hist, tickets, conn, invoices, properties, inspections>>

SetNXCmd(p) ==
    /\ call[p].pc = "nx_cmd"
    /\ LET k == call[p].key
           r == CacheSetNX(store, reachable, k, call[p].val, call[p].ttl)
       IN /\ store' = r.store
          /\ Done(p, [ret |-> r.ret, up |-> reachable,
                      pre |-> [was |-> InStore(store, k), now |-> InStore(r.store, k),
                               gone |-> k \in hist.gone] @@ call[p].pre]
                     @@ call[p])
          /\ hist' = IF r.ret THEN Touched(hist, {k}) ELSE hist
    /\ UNCHANGED <<reachable, tickets, conn, invoices, properties, inspections>>

NxValues == {Str("a"), Str("b"), Null}

NextNX ==
    \/ \E p \in Procs, k \in Raced, v \in NxValues, ttl \in Ttls :
          /\ \A q \in Procs \ {p} : call[q].op = "setNX" => call[q].val # v
          /\ SetNXBegin(p, k, v, ttl)
    \/ \E p \in Procs : SetNXCmd(p)
    \/ Tick
    \/ Outage
    \/ Recover

SpecNX == Init /\ [][NextNX]_vars

\* two setNX calls with different values, both begun while the key was
\* absent, both answered by the store, the key not having expired meanwhile
NxPair(p, q) ==
    /\ p # q
    /\ \A x \in {p, q} :
          /\ call[x].op = "setNX" /\ call[x].pc = "done" /\ call[x].up
          /\ call[x].pre.absent /\ ~call[x].pre.gone
    /\ call[p].key = call[q].key

\* C10.  Of two concurrent setNX calls on the same absent key with different
\* values exactly one returns true, and the store holds its value with its
\* ttl; the other returns false and its command leaves the entry's value and
\* TTL as they were.
C10_SetNXAtomic ==
    \A p, q \in Procs :
        NxPair(p, q) =>
            /\ call[p].ret # call[q].ret
            /\ call[p].ret =>
                  /\ call[p].pre.was = <<>>
                  /\ call[p].pre.now = <<Entry(Stringify(call[p].val), call[p].ttl)>>
                  /\ call[q].pre.was # <<>>
                  /\ call[q].pre.now = call[q].pre.was
                  /\ call[q].pre.was[1].val = Stringify(call[p].val)
                  /\ call[p].key \in DOMAIN store =>
                        store[call[p].key].val = Stringify(call[p].val)

\* C10 happens: p2 started while p1 was in flight, p1 won and p2 lost.
C10_Witness ==
    /\ NxPair("p1", "p2")
    /\ call["p2"].pre.overlap
    /\ call["p1"].ret /\ ~call["p2"].ret
    /\ call["p1"].ttl # call["p2"].ttl


----------------------------------------------------------------------------
(* RateLimiter *)

Max0(n) == IF n > 0 THEN n ELSE 0

\* a result whose `remaining` is not clamped at 0
CheckResultUnclamped(count, maxRequests) ==
    [allowed |-> count <= maxRequests,
     remaining |-> maxRequests - count,
     current |-> count]

\* a result that denies when no count could be obtained
CheckResultFailClosed(count, maxRequests) ==
    [allowed |-> count >= 1 /\ count <= maxRequests,
     remaining |-> Max0(maxRequests - count),
     current |-> count]

\* the object RateLimiter.check returns (resetAt, always now + window, left out)
CheckResult(count, maxRequests) ==
    [allowed |-> count <= maxRequests,
     remaining |-> Max0(maxRequests - count),
     current |-> count]

\* a middleware that lets every request through
MiddlewareSilent(result, maxRequests) == Null

\* RateLimiter.middleware on check's result: a 429 response, or null
Middleware(result, maxRequests) ==
    IF ~result.allowed
    THEN [status |-> 429, limit |-> maxRequests, remaining |-> 0]
    ELSE Null

TtlOf(s, k) == IF k \in DOMAIN s THEN <<s[k].ttl>> ELSE <<>>

CountOf(s, k) == IF k \in DOMAIN s THEN Parse(s[k].val).v ELSE 0

\* the arguments given to check
Subjects == {<<"u1">>}

Actions == {<<"createTicket">>}

MaxRequestsTried == {1, 5}

Windows == {MaxTtl}

\* the maxRequests of the calls whose allowed returns the history times
BurstMax == 2

\* history: hist.burst holds the age in seconds of every return with
\* allowed = true, not older than the window, of a check made with
\* maxRequests BurstMax that obtained a count
Timed(h, result, maxRequests) ==
    IF maxRequests = BurstMax /\ result.allowed
    THEN [h EXCEPT !.burst = Append(@, 0)]
    ELSE h

\* history of a counter's lifetime: a check that obtained a count returns;
\* got are the current values returned so far, in the order of the returns
Returned(w, result) == [w EXCEPT !.got = Append(@, result.current)]

\* check up to `const count = await CacheService.incr(key)`; a count other
\* than 1 goes straight to the result; via is the route handler the call is
\* made for
CheckIncrVia(p, userId, action, maxRequests, windowSeconds, via) ==
    /\ Free(p)
    /\ LET k == RateLimitKey(userId, action)
           r == CacheIncr(store, reachable, k)
           result == CheckResult(r.ret, maxRequests)
           rec == [op |-> "check", via |-> via, key |-> k, max |-> maxRequests,
                   ttl |-> windowSeconds, count |-> r.ret, up |-> reachable,
                   pre |-> [n |-> IF k \in DOMAIN store THEN hist.win[k].n ELSE 0,
                            due |-> /\ k \in DOMAIN hist.win
                                    /\ hist.win[k].age >= hist.win[k].window,
                            ttl |-> TtlOf(store, k)],
                   stored |-> CountOf(r.store, k), post |-> TtlOf(r.store, k)]
       IN /\ CountOf(store, k) < MaxCount
          /\ store' = r.store
          /\ IF r.ret = 1
             THEN /\ call' = [call EXCEPT ![p] = [pc |-> "chk_expire"] @@ rec @@ Idle]
                  /\ hist' = [hist EXCEPT !.win =
                                Put(@, k, [n |-> 1, window |-> windowSeconds, age |-> -1,
                                           got |-> <<>>])]
             ELSE /\ Done(p, [ret |-> result,
                              resp |-> Middleware(result, maxRequests)] @@ rec)
                  /\ hist' = IF r.ret > 1
                             THEN Timed([hist EXCEPT !.win[k] =
                                           Returned([@ EXCEPT !.n = r.ret], result)],
                                        result, maxRequests)
                             ELSE hist
    /\ UNCHANGED <<reachable, tickets, conn, invoices, properties, inspections>>

CheckIncr(p, userId, action, maxRequests, windowSeconds) ==
    CheckIncrVia(p, userId, action, maxRequests, windowSeconds, NoRoute)

\* `if (count === 1) await CacheService.expire(key, windowSeconds)`, then
\* the result
CheckExpire(p) ==
    /\ call[p].pc = "chk_expire"
    /\ LET k == call[p].key
           r == CacheExpire(store, reachable, k, call[p].ttl)
           result == CheckResult(call[p].count, call[p].max)
       IN /\ store' = r.store
          /\ Done(p, [ret |-> result, resp |-> Middleware(result, call[p].max),
                      post |-> TtlOf(r.store, k)]
                     @@ call[p])
          /\ hist' = Timed([hist EXCEPT !.win[k] =
                               Returned([@ EXCEPT !.age = 0], result)],
                            result, call[p].max)
    /\ UNCHANGED <<reachable, tickets, conn, invoices, properties, inspections>>

----------------------------------------------------------------------------
(* SpecRate: two callers check the same (subject, action) at the same time, *)
(* seconds pass, the connection comes and goes.                            *)

NextRate ==
    \/ \E p \in Procs, u \in Subjects, a \in Actions, m \in MaxRequestsTried, w \in Windows :
          CheckIncr(p, u, a, m, w)
    \/ \E p \in Procs : CheckExpire(p)
    \/ Tick
    \/ Outage
    \/ Recover

SpecRate == Init /\ [][NextRate]_vars


----------------------------------------------------------------------------
(* Properties of the rate limiter, over the check calls as recorded: `up`  *)
(* says the INCR reached the store, pre.n is the number of increments the   *)
(* counter had taken since it was created, pre.due says the window of the   *)
(* call that created the counter had already elapsed since that call        *)
(* returned, pre.ttl and post are the counter's lifetime before the call's  *)
(* first command and after its last.                                        *)

AllowedOfFive == <<TRUE, TRUE, TRUE, TRUE, TRUE, FALSE>>

RemainingOfFive == <<4, 3, 2, 1, 0, 0>>

\* C3: with the store reachable, the n-th check on a counter since the
\* counter was created (the n-th call of the window) leaves the counter at n
\* and returns current = n, allowed = (n <= maxRequests) and
\* remaining = max(0, maxRequests - n); for maxRequests = 5 the first six
\* calls give allowed T,T,T,T,T,F and remaining 4,3,2,1,0,0, the denied
\* sixth call having raised the counter to 6.
C3_FixedWindow ==
    \A p \in Procs :
        LET c == call[p] IN
        (c.op = "check" /\ c.up) =>
            /\ c.count = c.pre.n + 1
            /\ c.stored = c.count
            /\ c.pc = "done" =>
                  /\ c.ret.current = c.count
                  /\ c.ret.allowed = (c.count <= c.max)
                  /\ c.ret.remaining =
                        (IF c.max >= c.count THEN c.max - c.count ELSE 0)
                  /\ (c.max = 5 /\ c.count <= 6) =>
                        /\ c.ret.allowed = AllowedOfFive[c.count]
                        /\ c.ret.remaining = RemainingOfFive[c.count]

\* C3: the sixth call of a window with maxRequests = 5 has been denied and
\* has left the counter at 6
C3_Witness ==
    \E p \in Procs :
        /\ call[p].op = "check" /\ call[p].pc = "done" /\ call[p].up
        /\ call[p].max = 5 /\ call[p].pre.n = 5
        /\ ~call[p].ret.allowed /\ call[p].ret.remaining = 0
        /\ call[p].stored = 6

\* C4: a check whose INCR could not reach the store has issued no further
\* command and has resolved with allowed = true and remaining = maxRequests,
\* and the middleware has answered null for it, whatever maxRequests is and
\* whatever the counter holds.
C4_FailOpen ==
    \A p \in Procs :
        LET c == call[p] IN
        (c.op = "check" /\ ~c.up) =>
            /\ c.pc = "done"
            /\ c.ret.allowed
            /\ c.ret.remaining = c.max
            /\ c.resp = Null
            /\ c.post = c.pre.ttl /\ c.stored = c.pre.n

\* C4: a check has failed open while the counter stood at or above its
\* maxRequests
C4_Witness ==
    \E p \in Procs :
        /\ call[p].op = "check" /\ call[p].pc = "done" /\ ~call[p].up
        /\ call[p].key \in DOMAIN store
        /\ CountOf(store, call[p].key) >= call[p].max
        /\ call[p].ret.allowed /\ call[p].resp = Null

\* C6: a check whose INCR reaches the store once the window of the call
\* that created the counter has elapsed counts from 1 again: it finds
\* count = 1 and returns current = 1 and allowed = true.
C6_WindowReset ==
    \A p \in Procs :
        LET c == call[p] IN
        (c.op = "check" /\ c.up /\ c.pre.due) =>
            /\ c.count = 1
            /\ c.pc = "done" => (c.ret.current = 1 /\ c.ret.allowed)

\* C7: the check that moves the counter from absent to 1 returns with the
\* counter's lifetime set to its windowSeconds, and every other check leaves
\* the counter's lifetime as it found it, however the calls interleave.
C7_ExpiryOnce ==
    \A p \in Procs :
        LET c == call[p] IN
        (c.op = "check" /\ c.up) =>
            /\ (c.count = 1 /\ c.pc = "done") => c.post = <<c.ttl>>
            /\ c.count > 1 => c.post = c.pre.ttl


----------------------------------------------------------------------------
(* TicketService over the Ticket table and the cache *)

\* prisma.property.findFirst({ where: { tenantId } }) answers one of these
TenantProperties(userId) ==
    {pr \in DOMAIN properties : properties[pr].tenantId = userId}

\* CacheTTL.SHORT
ShortTtl == 60

\* `options?.pageSize || 10`
DefaultPageSize == 10

Digit == <<"1", "2", "3", "4", "5", "6", "7", "8", "9">>

\* the decimal digits of n, 0 <= n < 100, as `${n}` writes them
Digits(n) ==
    LET d(i) == IF i = 0 THEN "0" ELSE Digit[i]
    IN IF n < 10 THEN <<d(n)>> ELSE <<d(n \div 10), d(n % 10)>>

\* getTicketsByUser's page, pageSize, skip and cacheKey; an option left out
\* (or 0) is given as 0
ListRequest(userId, role, page0, pageSize0) ==
    LET page == IF page0 = 0 THEN 1 ELSE page0
        pageSize == IF pageSize0 = 0 THEN DefaultPageSize ELSE pageSize0
    IN [userId |-> userId, role |-> role, page |-> page, pageSize |-> pageSize,
        skip |-> (page - 1) * pageSize,
        key |-> TicketsListKey(userId, role) \o <<Sep, "p">> \o Digits(page)
                   \o <<Sep, "s">> \o Digits(pageSize)]

RECURSIVE Reverse(_)
Reverse(s) == IF s = <<>> THEN <<>> ELSE Reverse(Tail(s)) \o <<Head(s)>>

\* `skip, take` of a query
Slice(s, skip, take) ==
    SubSeq(s, skip + 1, IF skip + take < Len(s) THEN skip + take ELSE Len(s))

IsUrgent(t) == t.isUrgent

NotUrgent(t) == ~t.isUrgent

\* the tickets of the agent's properties; rows are kept in creation order
OfAgent(rows, agentId) ==
    LET Mine(t) == properties[t.propertyId].agentId = agentId
    IN SelectSeq(rows, Mine)

OfProperty(rows, propertyId) ==
    LET There(t) == t.propertyId = propertyId
    IN SelectSeq(rows, There)

\* ticketRepository.findByAgentId: isUrgent desc, then createdAt desc
FindByAgentId(rows, agentId, skip, take) ==
    LET mine == OfAgent(rows, agentId)
    IN Slice(Reverse(SelectSeq(mine, IsUrgent)) \o Reverse(SelectSeq(mine, NotUrgent)),
             skip, take)

CountByAgentId(rows, agentId) == Len(OfAgent(rows, agentId))

\* ticketRepository.findByPropertyId: createdAt desc
FindByPropertyId(rows, propertyId, skip, take) ==
    Slice(Reverse(OfProperty(rows, propertyId)), skip, take)

CountByPropertyId(rows, propertyId) == Len(OfProperty(rows, propertyId))

\* Math.ceil(total / pageSize)
TotalPages(total, pageSize) == (total + pageSize - 1) \div pageSize

ListResult(data, req, total) ==
    Obj([data |-> data,
         pagination |-> [page |-> req.page, pageSize |-> req.pageSize,
                         total |-> total,
                         totalPages |-> TotalPages(total, req.pageSize)]])

EmptyResult(req) ==
    Obj([data |-> <<>>,
         pagination |-> [page |-> req.page, pageSize |-> req.pageSize,
                         total |-> 0, totalPages |-> 0]])

\* the producer getTicketsByUser hands to getOrSet, the tenant's property
\* lookup having answered prs (a set of at most one property)
ListProducer(rows, req, prs) ==
    IF req.role = "AGENT"
    THEN ListResult(FindByAgentId(rows, req.userId, req.skip, req.pageSize), req,
                    CountByAgentId(rows, req.userId))
    ELSE IF req.role = "TENANT" /\ prs # {}
    THEN LET pr == CHOOSE x \in prs : TRUE
         IN ListResult(FindByPropertyId(rows, pr, req.skip, req.pageSize), req,
                       CountByPropertyId(rows, pr))
    ELSE EmptyResult(req)

\* `return result || { data: [], ... }`
GetTicketsResult(c) == IF c.ret = Null THEN EmptyResult(c.req) ELSE c.ret

\* a pattern that names the list key itself and none of its pages
InvalidatePatternNoPages(userId, role) == TicketsListKey(userId, role)

\* invalidateTicketCache's pattern: `${CacheKeys.ticketsList(userId, role)}:*`
InvalidatePattern(userId, role) == TicketsListKey(userId, role) \o <<Sep, "*">>

\* getTicketsByUser up to getOrSet's lookup.  The history marks the last
\* created ticket as read by its agent.
ListGet(p, userId, role, page0, pageSize0) ==
    LET req == ListRequest(userId, role, page0, pageSize0)
        first == /\ hist.last # <<>>
                 /\ role = "AGENT"
                 /\ hist.last[1].agentId = userId
                 /\ ~hist.last[1].read
    IN GetOrSetGetFor(p, req.key, ShortTtl,
                      [after |-> IF first THEN hist.last ELSE <<>>] @@ req,
                      IF first THEN [hist EXCEPT !.last[1].read = TRUE] ELSE hist)

\* the producer runs against the tables
ListFetch(p) ==
    /\ call[p].pc = "gos_fetch"
    /\ call[p].req # <<>>
    /\ LET props == TenantProperties(call[p].req.userId)
       IN \E pr \in IF props = {} THEN {"none"} ELSE props :
             GetOrSetFetch(p, ListProducer(tickets, call[p].req, {pr} \cap props))

\* createTicket up to ticketRepository.create; via is the route handler the
\* call is made for
CreateTicketVia(p, userId, role, data, via) ==
    /\ Free(p)
    /\ Len(tickets) < MaxTickets
    /\ LET rec == [op |-> "createTicket", via |-> via,
                   req |-> [userId |-> userId, role |-> role, data |-> data]]
           props == TenantProperties(userId)
       IN IF role # "TENANT"
          THEN /\ Done(p, [err |-> "Only tenants can create tickets"] @@ rec)
               /\ UNCHANGED tickets
          ELSE IF data.title = "" \/ data.description = ""
          THEN /\ Done(p, [err |-> "Title and description are required"] @@ rec)
               /\ UNCHANGED tickets
          ELSE IF props = {}
          THEN /\ Done(p, [err |-> "You don't have a rented property"] @@ rec)
               /\ UNCHANGED tickets
          ELSE \E pr \in props :
                LET ticket == [id |-> Len(tickets) + 1, propertyId |-> pr,
                               isUrgent |-> data.isUrgent, status |-> "OPEN",
                               createdAt |-> Date(Len(tickets) + 1)]
                    agentId == properties[pr].agentId
                IN /\ tickets' = Append(tickets, ticket)
                   /\ call' = [call EXCEPT ![p] =
                         [pc |-> "inv_keys", ticket |-> ticket, err |-> "",
                          todo |-> <<(<<userId, "TENANT">>), (<<agentId, "AGENT">>)>>,
                          agentId |-> agentId,
                          pre |-> [cached |-> RedisKeys(store,
                                      TicketsListKey(agentId, "AGENT") \o <<Sep, "*">>)]]
                         @@ rec @@ Idle]
    /\ UNCHANGED <<store, reachable, hist, conn, invoices, properties, inspections>>

CreateTicket(p, userId, role, data) == CreateTicketVia(p, userId, role, data, NoRoute)

\* the end of one invalidateTicketCache: on to the next (c.todo lists the
\* users and roles whose lists the mutation has yet to invalidate), or the
\* return of the mutation
Invalidated(p, c, h) ==
    IF Len(c.todo) > 1
    THEN /\ call' = [call EXCEPT ![p] = [pc |-> "inv_keys", todo |-> Tail(c.todo)] @@ c]
         /\ hist' = h
    ELSE /\ Done(p, [ret |-> Obj(c.ticket), todo |-> <<>>] @@ c)
         /\ hist' = IF c.op = "createTicket"
                    THEN [h EXCEPT !.last = <<[id |-> c.ticket.id,
                                               isUrgent |-> c.ticket.isUrgent,
                                               agentId |-> c.agentId,
                                               cached |-> c.pre.cached,
                                               read |-> FALSE]>>]
                    ELSE h

\* invalidateTicketCache up to delPattern's `redis.keys(pattern)`
InvalidateKeys(p) ==
    /\ call[p].pc = "inv_keys"
    /\ LET c == call[p]
           who == Head(c.todo)
           found == CacheDelPatternKeys(store, reachable, InvalidatePattern(who[1], who[2]))
       IN IF found = {}
          THEN Invalidated(p, c, hist)
          ELSE /\ call' = [call EXCEPT ![p] = [pc |-> "inv_del", found |-> found] @@ c]
               /\ hist' = hist
    /\ UNCHANGED <<store, reachable, tickets, conn, invoices, properties, inspections>>

\* delPattern's `redis.del(keys)`, the end of invalidateTicketCache
InvalidateDel(p) ==
    /\ call[p].pc = "inv_del"
    /\ LET r == CacheDelPatternDel(store, reachable, call[p].found)
       IN /\ store' = r.store
          /\ Invalidated(p, call[p],
                         IF reachable THEN Touched(hist, call[p].found) ELSE hist)
    /\ UNCHANGED <<reachable, tickets, conn, invoices, properties, inspections>>

----------------------------------------------------------------------------
(* SpecTickets: requests run one at a time against a reachable store: list *)
(* reads of an agent and a tenant, tickets created by tenants and others.   *)

Agents == {<<"a1">>}

Tenants == {<<"t1">>, <<"t2">>, <<"t9">>}

\* the (page, pageSize) options of a list request; 0 is an option left out
Pagings == {<<0, 0>>, <<1, 1>>, <<2, 1>>}

ListReaders ==
    {<<a, "AGENT", pg[1], pg[2]>> : a \in Agents, pg \in Pagings}
        \cup {<<(<<"t1">>), "TENANT", 0, 0>>}

TicketData ==
    {[title |-> "leak", description |-> "tap", isUrgent |-> u] : u \in BOOLEAN}
        \cup {[title |-> "", description |-> "tap", isUrgent |-> FALSE],
              [title |-> "leak", description |-> "", isUrgent |-> FALSE]}

NextTickets ==
    \/ \E r \in ListReaders : ListGet("p1", r[1], r[2], r[3], r[4])
    \/ ListFetch("p1")
    \/ GetOrSetSet("p1")
    \/ \E u \in Tenants, d \in TicketData : CreateTicket("p1", u, "TENANT", d)
    \/ \E u \in Agents, d \in TicketData : CreateTicket("p1", u, "AGENT", d)
    \/ InvalidateKeys("p1")
    \/ InvalidateDel("p1")

SpecTickets == Init /\ [][NextTickets]_vars


----------------------------------------------------------------------------
(* The invalidation scenario.  A list read by an agent carries in          *)
(* req.after the ticket whose createTicket completed last, if the agent's   *)
(* property received it and the agent has not read since; after.cached are  *)
(* the agent's list keys that were cached when that createTicket began.     *)

\* the agent's first read after a createTicket that found a page cached
ReadAfterCreate(c) ==
    /\ c.op = "getOrSet" /\ c.pc = "done"
    /\ c.req # <<>>
    /\ c.req.after # <<>>
    /\ c.req.after[1].cached # {}

Includes(c, id) ==
    LET data == GetTicketsResult(c).v.data
    IN \E i \in 1..Len(data) : data[i].id = id

\* where the agent's list, urgent tickets first and newest first among
\* equals, has the ticket just created: at the head if it is urgent,
\* behind the agent's urgent tickets if not
PlaceOfNew(a) ==
    IF a.isUrgent THEN 0
    ELSE Cardinality({i \in 1..Len(tickets) :
                        /\ tickets[i].isUrgent
                        /\ properties[tickets[i].propertyId].agentId = a.agentId})

MissedAndRecomputed(c) ==
    /\ c.pre.absent
    /\ c.calls = 1
    /\ GetTicketsResult(c).v.pagination.total =
          Cardinality({i \in 1..Len(tickets) :
                          properties[tickets[i].propertyId].agentId = c.req.userId})

\* C2 as stated: the agent's next list read after the createTicket misses
\* the cache, recomputes, and its result includes the new ticket.
C2_NextReadIncludesNew ==
    \A p \in Procs :
        ReadAfterCreate(call[p]) =>
            /\ MissedAndRecomputed(call[p])
            /\ Includes(call[p], call[p].req.after[1].id)

\* C2, amended: the agent's next list read after the createTicket misses the
\* cache and recomputes from the tables, so that its total counts the new
\* ticket, and its rows include the new ticket exactly when the ticket's
\* place in the agent's list falls on the page that was asked for.
C2_NextReadRecomputes ==
    \A p \in Procs :
        LET c == call[p] IN
        ReadAfterCreate(c) =>
            /\ MissedAndRecomputed(c)
            /\ Includes(c, c.req.after[1].id) =
                  (/\ PlaceOfNew(c.req.after[1]) >= c.req.skip
                   /\ PlaceOfNew(c.req.after[1]) < c.req.skip + c.req.pageSize)

\* C2: the very page that was cached before the createTicket has been read
\* again, recomputed, and shows the new ticket
C2_Witness ==
    \E p \in Procs :
        /\ ReadAfterCreate(call[p])
        /\ call[p].key \in call[p].req.after[1].cached
        /\ call[p].pre.absent
        /\ Includes(call[p], call[p].req.after[1].id)


----------------------------------------------------------------------------
(* RedisClient (app/lib/redis.ts): the shared handle and its lifecycle.     *)
(*                                                                          *)
(* A handle is [state, open, quitting].  state is the socket's: connecting  *)
(* (connect() pending), ready, or closed.  open is what the handle's isOpen *)
(* reads.  The client library's documentation says isOpen is false while a  *)
(* handle is still connecting, its socket sets the flag when connect() is   *)
(* called; a new handle takes either behaviour.  quit() clears isOpen at    *)
(* once and resolves when the reply has come.                               *)

Handle(state, open, quitting) == [state |-> state, open |-> open, quitting |-> quitting]

\* what `return this.client` yields: the handle, or null
Ref(h) == IF h = NoHandle THEN Null ELSE [t |-> "client", v |-> h]

\* `this.client?.isOpen`
ClientIsOpen(c) == c.client # NoHandle /\ c.handles[c.client].open

\* the handles whose connect() is pending: the connection attempts in flight
InFlight(c) == {h \in DOMAIN c.handles : c.handles[h].state = "connecting"}

\* what a getClient call finds on entry
Found(c) == [open |-> ClientIsOpen(c), isConnecting |-> c.isConnecting,
             pending |-> InFlight(c) # {}]

\* a getClient that starts an attempt whatever the isConnecting flag says
GetClientBodyUnguarded(p, early) ==
    LET rec == [op |-> "getClient", pre |-> Found(conn),
                waited |-> call[p].op = "getClient" /\ call[p].pc = "gc_wait"]
    IN IF ClientIsOpen(conn)
       THEN /\ Done(p, [ret |-> Ref(conn.client), did |-> "returned", alive |-> TRUE]
                       @@ rec)
            /\ UNCHANGED conn
       ELSE /\ Len(conn.handles) < MaxHandles
            /\ conn' = [client |-> Len(conn.handles) + 1, isConnecting |-> TRUE,
                        handles |-> Append(conn.handles,
                                           Handle("connecting", early, FALSE))]
            /\ call' = [call EXCEPT ![p] =
                          [pc |-> "gc_connect", did |-> "started",
                           handle |-> Len(conn.handles) + 1] @@ rec @@ Idle]

\* A call that has returned records in `alive` whether what it resolved to
\* was a handle that read open at that moment.
\* getClient from its entry to its first await: the open handle is returned;
\* with isConnecting set the caller sleeps 100 ms and calls getClient again;
\* otherwise isConnecting is set, a handle is created and connect() is called
GetClientBody(p, early) ==
    LET rec == [op |-> "getClient", pre |-> Found(conn),
                waited |-> call[p].op = "getClient" /\ call[p].pc = "gc_wait"]
    IN IF ClientIsOpen(conn)
       THEN /\ Done(p, [ret |-> Ref(conn.client), did |-> "returned", alive |-> TRUE]
                       @@ rec)
            /\ UNCHANGED conn
       ELSE IF conn.isConnecting
       THEN /\ call' = [call EXCEPT ![p] =
                          [pc |-> "gc_wait", did |-> "waited", waited |-> TRUE]
                          @@ rec @@ Idle]
            /\ UNCHANGED conn
       ELSE /\ Len(conn.handles) < MaxHandles
            /\ conn' = [client |-> Len(conn.handles) + 1, isConnecting |-> TRUE,
                        handles |-> Append(conn.handles,
                                           Handle("connecting", early, FALSE))]
            /\ call' = [call EXCEPT ![p] =
                          [pc |-> "gc_connect", did |-> "started",
                           handle |-> Len(conn.handles) + 1] @@ rec @@ Idle]

\* a caller calls getClient
GetClient(p) ==
    /\ Free(p)
    /\ \E early \in BOOLEAN : GetClientBody(p, early)
    /\ UNCHANGED <<store, reachable, hist, tickets, invoices, properties, inspections>>

\* the 100 ms have passed: `return this.getClient()`
GetClientRetry(p) ==
    /\ call[p].pc = "gc_wait"
    /\ \E early \in BOOLEAN : GetClientBody(p, early)
    /\ UNCHANGED <<store, reachable, hist, tickets, invoices, properties, inspections>>

\* a resolution handled without the finally block
ConnectResolvesNoFinally(p) ==
    /\ call[p].pc = "gc_connect"
    /\ reachable
    /\ LET h == call[p].handle
           hs == [conn.handles EXCEPT ![h].state = "ready",
                                      ![h].open = ~conn.handles[h].quitting]
       IN /\ conn' = [conn EXCEPT !.handles = hs]
          /\ Done(p, [ret |-> Ref(conn.client),
                      alive |-> conn.client # NoHandle /\ hs[conn.client].open] @@ call[p])
    /\ UNCHANGED <<store, reachable, hist, tickets, invoices, properties, inspections>>

\* `await this.client.connect()` resolves: `return this.client`, and the
\* finally block clears isConnecting
ConnectResolves(p) ==
    /\ call[p].pc = "gc_connect"
    /\ reachable
    /\ LET h == call[p].handle
           hs == [conn.handles EXCEPT ![h].state = "ready",
                                      ![h].open = ~conn.handles[h].quitting]
       IN /\ conn' = [conn EXCEPT !.handles = hs, !.isConnecting = FALSE]
          /\ Done(p, [ret |-> Ref(conn.client),
                      alive |-> conn.client # NoHandle /\ hs[conn.client].open] @@ call[p])
    /\ UNCHANGED <<store, reachable, hist, tickets, invoices, properties, inspections>>

\* a rejection handled without the finally block
ConnectRejectsNoFinally(p) ==
    /\ call[p].pc = "gc_connect"
    /\ ~reachable
    /\ LET h == call[p].handle
       IN /\ conn' = [client |-> NoHandle, isConnecting |-> conn.isConnecting,
                      handles |-> [conn.handles EXCEPT ![h] =
                                     Handle("closed", FALSE, @.quitting)]]
          /\ Done(p, [err |-> "connect failed", ret |-> Null, alive |-> FALSE]
                     @@ call[p])
    /\ UNCHANGED <<store, reachable, hist, tickets, invoices, properties, inspections>>

\* connect() rejects (the reconnect strategy has given up): the catch block
\* clears the reference and rethrows, the finally block clears isConnecting
ConnectRejects(p) ==
    /\ call[p].pc = "gc_connect"
    /\ ~reachable
    /\ LET h == call[p].handle
       IN /\ conn' = [client |-> NoHandle, isConnecting |-> FALSE,
                      handles |-> [conn.handles EXCEPT ![h] =
                                     Handle("closed", FALSE, @.quitting)]]
          /\ Done(p, [err |-> "connect failed", ret |-> Null, alive |-> FALSE]
                     @@ call[p])
    /\ UNCHANGED <<store, reachable, hist, tickets, invoices, properties, inspections>>

\* an established connection drops and the handle's reconnect strategy gives
\* up: the handle is closed for good
ConnectionDrops ==
    /\ \E h \in DOMAIN conn.handles :
          /\ conn.handles[h].state = "ready"
          /\ conn' = [conn EXCEPT !.handles[h] = Handle("closed", FALSE, @.quitting)]
    /\ UNCHANGED <<store, reachable, call, hist, tickets, invoices, properties, inspections>>

\* disconnect up to `await this.client.quit()`; nothing to do when the
\* reference is null or the handle does not read open
Disconnect(p) ==
    /\ Free(p)
    /\ LET rec == [op |-> "disconnect", pre |-> conn]
       IN IF ClientIsOpen(conn)
          THEN /\ conn' = [conn EXCEPT !.handles[conn.client].open = FALSE,
                                       !.handles[conn.client].quitting = TRUE]
               /\ call' = [call EXCEPT ![p] =
                             [pc |-> "dc_quit", handle |-> conn.client] @@ rec @@ Idle]
          ELSE /\ Done(p, [handle |-> conn.client, err |-> "", post |-> conn] @@ rec)
               /\ UNCHANGED conn
    /\ UNCHANGED <<store, reachable, hist, tickets, invoices, properties, inspections>>

\* quit() settles once the handle's connect() has: it resolves on a ready
\* handle, `this.client = null` follows; it rejects on a handle that has
\* lost its connection, and disconnect rejects with it
DisconnectQuit(p) ==
    /\ call[p].pc = "dc_quit"
    /\ LET h == call[p].handle
       IN /\ conn.handles[h].state # "connecting"
          /\ IF conn.handles[h].state = "ready"
             THEN LET after == [conn EXCEPT !.client = NoHandle,
                                           !.handles[h] = Handle("closed", FALSE, TRUE)]
                  IN /\ conn' = after
                     /\ Done(p, [err |-> "", post |-> after] @@ call[p])
             ELSE /\ Done(p, [err |-> "quit failed", post |-> conn] @@ call[p])
                  /\ UNCHANGED conn
    /\ UNCHANGED <<store, reachable, hist, tickets, invoices, properties, inspections>>

----------------------------------------------------------------------------
(* SpecConn: two callers ask for the handle or disconnect, at any time,    *)
(* while the store comes and goes and connections drop.                     *)

NextConn ==
    \/ \E p \in Procs : GetClient(p)
    \/ \E p \in Procs : GetClientRetry(p)
    \/ \E p \in Procs : ConnectResolves(p)
    \/ \E p \in Procs : ConnectRejects(p)
    \/ \E p \in Procs : Disconnect(p)
    \/ \E p \in Procs : DisconnectQuit(p)
    \/ ConnectionDrops
    \/ Outage
    \/ Recover

SpecConn == Init /\ [][NextConn]_vars


----------------------------------------------------------------------------
(* Properties of RedisClient.  A getClient call records what its last pass  *)
(* through the method found (pre) and did: returned the handle, waited, or  *)
(* started a connection attempt.                                            *)

C14_DisconnectTeardown ==
    \A p \in Procs :
        LET c == call[p] IN
        (c.op = "disconnect" /\ c.pc = "done") =>
            /\ c.err = ""
            /\ c.post.client = NoHandle
            /\ c.handle # NoHandle => c.post.handles[c.handle].state = "closed"
            /\ c.pre.client = NoHandle => c.post = c.pre


----------------------------------------------------------------------------
(* More properties of CacheService *)

\* C12: when getOrSet has missed and its producer rejects, the call resolves
\* to null (nothing is thrown) and the step writes nothing to the store: no
\* entry appears for the key.
C12_ProducerFailure ==
    [][\A p \in Procs :
          (call[p].pc = "gos_fetch" /\ call'[p].pc = "done") =>
              /\ call'[p].op = "getOrSet"
              /\ call'[p].ret = Null
              /\ call'[p].calls = 1
              /\ store' = store
      ]_vars

\* C12: a getOrSet whose producer rejected has returned null on a key that
\* is still absent
C12_Witness ==
    \E p \in Procs :
        /\ call[p].op = "getOrSet" /\ call[p].pc = "done"
        /\ call[p].data = [t |-> "rejected"]
        /\ call[p].ret = Null
        /\ call[p].pre.absent
        /\ call[p].key \notin DOMAIN store


\* C13: with the store reachable, del(key) returns true whether or not the
\* key was there, removes the key and nothing else, and a second del(key)
\* would return true again and leave the store as the first left it.
C13_IdempotentDelete ==
    [][\A p \in Procs :
          (/\ Free(p) /\ reachable
           /\ call'[p].op = "del"
           /\ (call[p].op # "del" \/ call'[p] # call[p])) =>
              LET k == call'[p].key IN
              /\ call'[p].ret = TRUE
              /\ DOMAIN store' = DOMAIN store \ {k}
              /\ \A x \in DOMAIN store' : store'[x] = store[x]
              /\ CacheDel(store', reachable, k) = [store |-> store', ret |-> TRUE]
      ]_vars

\* C13: del has returned true for a key that was absent, other keys being
\* in the store
C13_Witness ==
    \E p \in Procs :
        /\ call[p].op = "del" /\ call[p].pc = "done" /\ call[p].up
        /\ call[p].ret = TRUE
        /\ call[p].key \notin DOMAIN call[p].pre[1]
        /\ DOMAIN call[p].pre[1] # {}
        /\ store = call[p].pre[1]


----------------------------------------------------------------------------
(* More properties of TicketService *)

\* a JavaScript array
Arr(s) == [t |-> "arr", v |-> s]

\* `skip: number = 0, take: number = 10` of the repository's list queries
DefaultSkip == 0
DefaultTake == 10

\* the list the repository yields for the user: findByAgentId(userId) for
\* an agent, findByPropertyId(property.id) for a tenant's property, the
\* empty list for a tenant without one
RepositoryList(userId, role) ==
    IF role = "AGENT"
    THEN FindByAgentId(tickets, userId, DefaultSkip, DefaultTake)
    ELSE IF TenantProperties(userId) = {} THEN <<>>
    ELSE FindByPropertyId(tickets, CHOOSE pr \in TenantProperties(userId) : TRUE,
                          DefaultSkip, DefaultTake)

\* C16: what getTicketsByUser returns is the list of tickets the repository
\* yields: findByAgentId(userId) for an AGENT, findByPropertyId of the
\* tenant's property for a TENANT, the empty list for a TENANT without a
\* property.
C16_ReturnsRepositoryList ==
    \A p \in Procs :
        LET c == call[p] IN
        (c.op = "getOrSet" /\ c.pc = "done" /\ c.req # <<>>) =>
            /\ GetTicketsResult(c).t = "arr"
            /\ GetTicketsResult(c).v = RepositoryList(c.req.userId, c.req.role)


----------------------------------------------------------------------------
(* TicketService.updateTicketStatus *)

\* `const validStatuses = ["OPEN", "IN_PROGRESS", "DONE", "CLOSED"]`
ValidStatuses == <<"OPEN", "IN_PROGRESS", "DONE", "CLOSED">>

IsValidStatus(status) == \E i \in 1..Len(ValidStatuses) : ValidStatuses[i] = status

\* ticketRepository.findById: the row's position in the table, 0 for none
FindById(rows, ticketId) ==
    IF \E i \in 1..Len(rows) : rows[i].id = ticketId
    THEN CHOOSE i \in 1..Len(rows) : rows[i].id = ticketId
    ELSE 0

\* an update that lets any agent through
UpdateTicketStatusAnyAgent(p, ticketId, userId, role, status) ==
    /\ Free(p)
    /\ LET rec == [op |-> "updateTicketStatus",
                   req |-> [ticketId |-> ticketId, userId |-> userId, role |-> role,
                            status |-> status]]
           i == FindById(tickets, ticketId)
       IN IF role # "AGENT"
          THEN /\ Done(p, [err |-> "Only agents can update tickets"] @@ rec)
               /\ UNCHANGED tickets
          ELSE IF i = 0
          THEN /\ Done(p, [err |-> "Ticket not found"] @@ rec)
               /\ UNCHANGED tickets
          ELSE LET property == properties[tickets[i].propertyId]
                   updated == [tickets[i] EXCEPT !.status = status]
               IN /\ tickets' = [tickets EXCEPT ![i] = updated]
                  /\ call' = [call EXCEPT ![p] =
                        [pc |-> "inv_keys", ticket |-> updated, err |-> "",
                         todo |-> <<(<<userId, role>>)>> \o
                                  (IF property.tenantId # NoTenant
                                   THEN <<(<<property.tenantId, "TENANT">>)>> ELSE <<>>),
                         agentId |-> property.agentId]
                        @@ rec @@ Idle]
    /\ UNCHANGED <<store, reachable, hist, conn, invoices, properties, inspections>>

\* updateTicketStatus up to ticketRepository.update; the invalidations of
\* the agent's list and, if the property has a tenant, of the tenant's
\* list follow
UpdateTicketStatus(p, ticketId, userId, role, status) ==
    /\ Free(p)
    /\ LET rec == [op |-> "updateTicketStatus",
                   req |-> [ticketId |-> ticketId, userId |-> userId, role |-> role,
                            status |-> status]]
           i == FindById(tickets, ticketId)
       IN IF role # "AGENT"
          THEN /\ Done(p, [err |-> "Only agents can update tickets"] @@ rec)
               /\ UNCHANGED tickets
          ELSE IF i = 0
          THEN /\ Done(p, [err |-> "Ticket not found"] @@ rec)
               /\ UNCHANGED tickets
          ELSE IF properties[tickets[i].propertyId].agentId # userId
          THEN /\ Done(p, [err |-> "You don't have access to this ticket"] @@ rec)
               /\ UNCHANGED tickets
          ELSE IF ~IsValidStatus(status)
          THEN /\ Done(p, [err |-> "Invalid status"] @@ rec)
               /\ UNCHANGED tickets
          ELSE LET property == properties[tickets[i].propertyId]
                   updated == [tickets[i] EXCEPT !.status = status]
               IN /\ tickets' = [tickets EXCEPT ![i] = updated]
                  /\ call' = [call EXCEPT ![p] =
                        [pc |-> "inv_keys", ticket |-> updated, err |-> "",
                         todo |-> <<(<<userId, role>>)>> \o
                                  (IF property.tenantId # NoTenant
                                   THEN <<(<<property.tenantId, "TENANT">>)>> ELSE <<>>),
                         agentId |-> property.agentId]
                        @@ rec @@ Idle]
    /\ UNCHANGED <<store, reachable, hist, conn, invoices, properties, inspections>>

----------------------------------------------------------------------------
(* SpecStatus: requests run one at a time: tickets are created, their      *)
(* status is updated, lists are read, by users entitled to it and not.      *)

StatusesTried == {"OPEN", "IN_PROGRESS", "DONE", "CLOSED", "INVALID"}

StatusReaders == {<<(<<"a1">>), "AGENT", 0, 0>>, <<(<<"t1">>), "TENANT", 0, 0>>}

StatusCreators == {<<(<<"t1">>), "TENANT">>, <<(<<"t9">>), "TENANT">>, <<(<<"a1">>), "AGENT">>}

StatusUpdaters == {<<(<<"a1">>), "AGENT">>, <<(<<"a2">>), "AGENT">>, <<(<<"t1">>), "TENANT">>}

StatusTicketData ==
    {[title |-> "leak", description |-> "tap", isUrgent |-> FALSE],
     [title |-> "", description |-> "tap", isUrgent |-> FALSE],
     [title |-> "leak", description |-> "", isUrgent |-> FALSE]}

NextStatus ==
    \/ \E r \in StatusReaders : ListGet("p1", r[1], r[2], r[3], r[4])
    \/ ListFetch("p1")
    \/ GetOrSetSet("p1")
    \/ \E u \in StatusCreators, d \in StatusTicketData : CreateTicket("p1", u[1], u[2], d)
    \/ \E id \in 1..MaxTickets, u \in StatusUpdaters, st \in StatusesTried :
          UpdateTicketStatus("p1", id, u[1], u[2], st)
    \/ InvalidateKeys("p1")
    \/ InvalidateDel("p1")

SpecStatus == Init /\ [][NextStatus]_vars


----------------------------------------------------------------------------
(* Properties of the ticket mutations *)

\* the error the claim names for a request, "" where it names none
NamedError(op, req, rows) ==
    IF op = "createTicket"
    THEN IF req.role # "TENANT" THEN "Only tenants can create tickets"
         ELSE IF req.data.title = "" \/ req.data.description = ""
         THEN "Title and description are required"
         ELSE IF \A pr \in DOMAIN properties : properties[pr].tenantId # req.userId
         THEN "You don't have a rented property"
         ELSE ""
    ELSE IF req.role # "AGENT" THEN "Only agents can update tickets"
         ELSE IF \A i \in 1..Len(rows) : rows[i].id # req.ticketId
         THEN "Ticket not found"
         ELSE IF req.status \notin {"OPEN", "IN_PROGRESS", "DONE", "CLOSED"}
                 /\ \E i \in 1..Len(rows) :
                       /\ rows[i].id = req.ticketId
                       /\ properties[rows[i].propertyId].agentId = req.userId
         THEN "Invalid status"
         ELSE ""

\* C15: createTicket by a non-TENANT, with an empty title or description, or
\* by a tenant without a property, and updateTicketStatus by a non-AGENT,
\* for a missing ticket, or with a status outside OPEN, IN_PROGRESS, DONE,
\* CLOSED, fail at once with their own error; a call that fails leaves the
\* Ticket table and the cache as they were.
C15_RejectedChangeNothing ==
    [][\A p \in Procs :
          (/\ Free(p)
           /\ call'[p].op \in {"createTicket", "updateTicketStatus"}
           /\ call'[p] # call[p]) =>
              LET c == call'[p] IN
              /\ NamedError(c.op, c.req, tickets) # "" =>
                    c.err = NamedError(c.op, c.req, tickets)
              /\ c.err # "" =>
                    /\ c.pc = "done"
                    /\ tickets' = tickets
                    /\ store' = store
      ]_vars

\* C15: an update with an invalid status has been refused to the owning
\* agent while the agent's list was cached; the ticket and the cache entry
\* are still there
C15_Witness ==
    \E p \in Procs :
        /\ call[p].op = "updateTicketStatus" /\ call[p].pc = "done"
        /\ call[p].err = "Invalid status"
        /\ \E i \in 1..Len(tickets) :
              tickets[i].id = call[p].req.ticketId /\ tickets[i].status = "DONE"
        /\ \E k \in DOMAIN store : GlobMatch(InvalidatePattern(<<"a1">>, "AGENT"), k)

StatusRank(status) == CHOOSE i \in 1..Len(ValidStatuses) : ValidStatuses[i] = status

\* C17: a ticket's status only moves forward along OPEN, IN_PROGRESS, DONE,
\* CLOSED: no updateTicketStatus of the owning agent takes it to an earlier
\* status.
C17_StatusNeverBack ==
    [][\A i \in 1..Len(tickets) :
          StatusRank(tickets'[i].status) >= StatusRank(tickets[i].status)
      ]_vars


----------------------------------------------------------------------------
(* Invoices and the payment webhook (app/services/invoice.service.ts,       *)
(* app/api/payments/webhook/route.ts).  invoices is the Invoice table in    *)
(* creation order; an invoice's id is its position.                         *)

\* InvoiceService.createInvoice; a new invoice is unpaid
CreateInvoice(p, userId, role, data) ==
    /\ Free(p)
    /\ Len(invoices) < MaxInvoices
    /\ LET rec == [op |-> "createInvoice",
                   req |-> [userId |-> userId, role |-> role, data |-> data]]
       IN IF role # "AGENT"
          THEN /\ Done(p, [err |-> "Only agents can create invoices"] @@ rec)
               /\ UNCHANGED invoices
          ELSE IF data.propertyId = "" \/ data.amount = 0
          THEN /\ Done(p, [err |-> "Property, amount, due date, and billing month are required"]
                          @@ rec)
               /\ UNCHANGED invoices
          ELSE IF data.propertyId \notin DOMAIN properties
          THEN /\ Done(p, [err |-> "Property not found"] @@ rec)
               /\ UNCHANGED invoices
          ELSE IF properties[data.propertyId].agentId # userId
          THEN /\ Done(p, [err |-> "You don't have access to this property"] @@ rec)
               /\ UNCHANGED invoices
          ELSE IF properties[data.propertyId].tenantId = NoTenant
          THEN /\ Done(p, [err |-> "Property has no tenant assigned"] @@ rec)
               /\ UNCHANGED invoices
          ELSE LET invoice == [id |-> Len(invoices) + 1, propertyId |-> data.propertyId,
                               tenantId |-> properties[data.propertyId].tenantId,
                               amount |-> data.amount, status |-> "PENDING",
                               paidAt |-> Null, stripePaymentId |-> Null]
               IN /\ invoices' = Append(invoices, invoice)
                  /\ Done(p, [err |-> "", ret |-> Obj(invoice)] @@ rec)
    /\ UNCHANGED <<store, reachable, hist, tickets, conn, properties, inspections>>

\* InvoiceService.markInvoiceAsPaid, the clock reading now
MarkInvoiceAsPaid(rows, invoiceId, stripePaymentId, now) ==
    [rows EXCEPT ![invoiceId].status = "PAID",
                 ![invoiceId].paidAt = Date(now),
                 ![invoiceId].stripePaymentId = Str(stripePaymentId)]

\* the latest instant written into the table: the clock is not before it
LatestPaidAt(rows) ==
    LET stamps == {rows[i].paidAt.v : i \in {j \in 1..Len(rows) : rows[j].paidAt # Null}}
    IN IF stamps = {} THEN 0 ELSE CHOOSE t \in stamps : \A u \in stamps : u <= t

\* POST /api/payments/webhook: signature is "" (no header), "bad" or "good";
\* event is what constructEvent yields for the body
WebhookPost(p, signature, event, now) ==
    /\ Free(p)
    /\ now >= LatestPaidAt(invoices)
    /\ LET rec == [op |-> "webhook",
                   req |-> [signature |-> signature, event |-> event, now |-> now],
                   pre |-> [delivered |-> event.id \in hist.delivered,
                            invoices |-> invoices]]
           Answer(status, after) ==
               /\ invoices' = after
               /\ Done(p, [resp |-> status, post |-> after] @@ rec)
               /\ hist' = IF status = 200
                          THEN [hist EXCEPT !.delivered = @ \cup {event.id}]
                          ELSE hist
       IN IF signature = "" THEN Answer(400, invoices)
          ELSE IF signature # "good" THEN Answer(400, invoices)
          ELSE IF event.type = "checkout.session.completed"
          THEN IF event.invoiceId = 0 THEN Answer(200, invoices)
               ELSE IF event.invoiceId > Len(invoices) THEN Answer(500, invoices)
               ELSE Answer(200, MarkInvoiceAsPaid(invoices, event.invoiceId,
                                                  event.payment_intent, now))
          ELSE Answer(200, invoices)
    /\ UNCHANGED <<store, reachable, tickets, conn, properties, inspections>>

----------------------------------------------------------------------------
(* SpecPay: agents make invoices; the payment provider delivers events,     *)
(* any of them any number of times, as the clock advances.  Each handler    *)
(* is one database statement, so the requests are taken one after another.  *)

InvoiceData ==
    {[propertyId |-> "pr1", amount |-> 100], [propertyId |-> "pr1", amount |-> 0],
     [propertyId |-> "pr9", amount |-> 100]}

InvoiceMakers == {<<(<<"a1">>), "AGENT">>, <<(<<"a2">>), "AGENT">>, <<(<<"t1">>), "TENANT">>}

Events ==
    {[id |-> "evt_1", type |-> "checkout.session.completed", invoiceId |-> 1,
      payment_intent |-> "pi_1"],
     [id |-> "evt_2", type |-> "checkout.session.completed", invoiceId |-> 2,
      payment_intent |-> "pi_2"],
     [id |-> "evt_3", type |-> "checkout.session.completed", invoiceId |-> 0,
      payment_intent |-> "pi_3"],
     [id |-> "evt_4", type |-> "checkout.session.expired", invoiceId |-> 1,
      payment_intent |-> "pi_1"]}

Signatures == {"", "bad", "good"}

NextPay ==
    \/ \E u \in InvoiceMakers, d \in InvoiceData :
          CreateInvoice("p1", u[1], u[2], d)
    \/ \E sg \in Signatures, ev \in Events, now \in 0..MaxTime :
          WebhookPost("p1", sg, ev, now)

SpecPay == Init /\ [][NextPay]_vars

\* C18: a checkout.session.completed event delivered again, to an invoice
\* that still stands as the event's first delivery left it, changes nothing:
\* status, stripePaymentId and paidAt are as after one delivery.
C18_WebhookIdempotent ==
    \A p \in Procs :
        LET c == call[p] IN
        (/\ c.op = "webhook" /\ c.resp = 200
         /\ c.req.event.type = "checkout.session.completed"
         /\ c.req.event.invoiceId # 0
         /\ c.pre.delivered
         /\ c.pre.invoices[c.req.event.invoiceId].stripePaymentId
               = Str(c.req.event.payment_intent)) =>
            c.post = c.pre.invoices

----------------------------------------------------------------------------
(* SpecRace: a list read of agent a1 (p1) runs while a tenant of the agent  *)
(* creates tickets and the agent moves their status (p2); the store is      *)
(* reachable throughout.                                                    *)

RaceReaders == {<<(<<"a1">>), "AGENT", 0, 0>>}

RaceTicketData == {[title |-> "leak", description |-> "tap", isUrgent |-> FALSE]}

RaceStatuses == {"IN_PROGRESS"}

NextRace ==
    \/ \E r \in RaceReaders : ListGet("p1", r[1], r[2], r[3], r[4])
    \/ ListFetch("p1")
    \/ GetOrSetSet("p1")
    \/ \E d \in RaceTicketData : CreateTicket("p2", <<"t1">>, "TENANT", d)
    \/ \E i \in 1..MaxTickets, st \in RaceStatuses :
          UpdateTicketStatus("p2", i, <<"a1">>, "AGENT", st)
    \/ InvalidateKeys("p2")
    \/ InvalidateDel("p2")

SpecRace == Init /\ [][NextRace]_vars

\* the list keys of agent a1 that hold something else than the list's
\* producer now yields for them
StaleKeys ==
    {k \in DOMAIN store :
        \E r \in RaceReaders :
           LET req == ListRequest(r[1], r[2], r[3], r[4])
           IN /\ k = req.key
              /\ store[k].val # Stringify(ListProducer(tickets, req, {}))}

\* C19: under every interleaving of an agent's list reads with createTicket
\* and updateTicketStatus on the agent's tickets, once every call has
\* completed no entry under the agent's list prefix holds a list computed
\* before the mutation.
C19_NoStaleEntry ==
    (\A p \in Procs : Free(p)) => StaleKeys = {}

----------------------------------------------------------------------------
(* The limiter's bound.  hist.win[k].got lists the current values the       *)
(* checks of the counter's present lifetime have returned.                  *)

\* the returns of a lifetime that are allowed when every call of the
\* lifetime was made with maxRequests m
AllowedAmong(got, m) ==
    Cardinality({i \in DOMAIN got : CheckResult(got[i], m).allowed})

\* C20: among the checks of one (subject, action) that obtained a count
\* during one counter lifetime, at most maxRequests return allowed = true
\* and no two return the same current, however the increment and expire
\* steps of concurrent calls interleave.
C20_EnforcedBound ==
    \A k \in DOMAIN hist.win :
        LET got == hist.win[k].got IN
        /\ \A m \in MaxRequestsTried : AllowedAmong(got, m) <= m
        /\ \A i, j \in DOMAIN got : i # j => got[i] # got[j]
        /\ \A p \in Procs :
              (/\ call[p].op = "check" /\ call[p].pc = "done"
               /\ call[p].key = k /\ call[p].count >= 1
               /\ call[p].ret.allowed) =>
                 call[p].ret.current <= call[p].max

\* C20 witness: two calls with maxRequests 1 overlap; the one that counted 2
\* returned first and was denied, the one that counted 1 was allowed.
C20_Witness ==
    \E k \in DOMAIN hist.win :
        /\ hist.win[k].got = <<2, 1>>
        /\ \E p, q \in Procs :
              /\ call[p].op = "check" /\ call[p].pc = "done" /\ call[p].key = k
              /\ call[q].op = "check" /\ call[q].pc = "done" /\ call[q].key = k
              /\ call[p].max = 1 /\ call[q].max = 1
              /\ call[p].ret.current = 1 /\ call[p].ret.allowed
              /\ call[q].ret.current = 2 /\ ~call[q].ret.allowed

----------------------------------------------------------------------------
\* C21: whenever no check is in progress, every rate-limit counter present
\* in the store has an expiry, whatever the pattern of store failures.
C21_NoImmortalCounter ==
    (\A p \in Procs : Free(p)) =>
        \A u \in Subjects, a \in Actions :
            LET k == RateLimitKey(u, a)
            IN k \in DOMAIN store => store[k].ttl # NoExpiry

----------------------------------------------------------------------------
(* SpecBurst: two callers check one (subject, action) with maxRequests      *)
(* BurstMax as the seconds pass; the store is reachable throughout.         *)

NextBurst ==
    \/ \E p \in Procs, u \in Subjects, a \in Actions, w \in Windows :
          CheckIncr(p, u, a, BurstMax, w)
    \/ \E p \in Procs : CheckExpire(p)
    \/ Tick

SpecBurst == Init /\ [][NextBurst]_vars

----------------------------------------------------------------------------
(* SpecCold: two callers read through the cache on the same key at the same *)
(* time, each with its own producer; the key is deleted now and then so     *)
(* that it is cold again.  The store is reachable and no second passes.     *)

ColdValues == [p1 |-> {Str("a"), Num(0)}, p2 |-> {Str("b")}]

NextCold ==
    \/ \E p \in Procs, k \in Watched, ttl \in Ttls : GetOrSetGet(p, k, ttl)
    \/ \E p \in Procs : \E v \in ColdValues[p] : GetOrSetFetch(p, v)
    \/ \E p \in Procs : GetOrSetSet(p)
    \/ \E p \in Procs, k \in Watched : Del(p, k)

SpecCold == Init /\ [][NextCold]_vars

\* C23: of two getOrSet calls on the same key that run at the same time,
\* each has invoked its producer at most once; one that invoked it returned
\* its own producer's value, one that did not returned the value another
\* call had cached; and the cache holds what the last set wrote.
C23_ColdReads ==
    /\ \A p \in Procs :
          LET c == call[p] IN
          (c.op = "getOrSet") =>
              /\ c.calls <= 1
              /\ (c.pc = "done" /\ c.calls = 1) => c.ret = c.data
              /\ (c.pc = "done" /\ c.calls = 0) =>
                    /\ ~c.pre.absent
                    /\ c.pre.gos # <<>>
                    /\ c.ret = Parse(Stringify(c.pre.gos[1]))
    /\ \A k \in Watched :
          /\ k \in DOMAIN hist.gos =>
                (k \in DOMAIN store /\ store[k].val = Stringify(hist.gos[k]))
          /\ (k \in DOMAIN store) => k \in DOMAIN hist.gos

\* C23 witness: both calls found the key absent, both ran their producers
\* and returned their own values, which differ; the cache holds the value of
\* p1, whose set came last.
C23_Witness ==
    /\ \A p \in Procs :
          /\ call[p].op = "getOrSet" /\ call[p].pc = "done"
          /\ call[p].pre.absent /\ call[p].calls = 1
          /\ call[p].ret = call[p].data
          /\ call[p].key = call["p1"].key
    /\ call["p1"].data = Str("a")
    /\ call["p2"].data = Str("b")
    /\ store[call["p1"].key].val = Stringify(Str("a"))

----------------------------------------------------------------------------
\* C24: a getOrSet whose lookup and write both found the store unreachable,
\* and whose producer resolved, has invoked the producer exactly once and
\* returned the producer's value.
C24_OutageReadThrough ==
    \A p \in Procs :
        LET c == call[p] IN
        (c.op = "getOrSet" /\ c.pc = "done" /\ c.down /\ Resolved(c)) =>
            /\ c.calls = 1
            /\ c.ret = c.data

\* C24 witness: the key was cached, the store was unreachable for the whole
\* call, and the call returned its producer's value, a string.
C24_Witness ==
    \E p \in Procs :
        LET c == call[p] IN
        /\ c.op = "getOrSet" /\ c.pc = "done" /\ c.down /\ ~reachable
        /\ ~c.pre.absent
        /\ c.calls = 1 /\ c.data = Str("") /\ c.ret = Str("")
        /\ store[c.key].val # Stringify(Str(""))

----------------------------------------------------------------------------
(* PropertyService.updateProperty (of the fields of a property, the model   *)
(* keeps agentId and tenantId; data.tenantId is given or left out)          *)

UpdateProperty(p, propertyId, userId, role, data) ==
    /\ Free(p)
    /\ LET rec == [op |-> "updateProperty",
                   req |-> [propertyId |-> propertyId, userId |-> userId,
                            role |-> role, data |-> data]]
       IN IF role # "AGENT"
          THEN /\ Done(p, [err |-> "Only agents can update properties"] @@ rec)
               /\ UNCHANGED properties
          ELSE IF propertyId \notin DOMAIN properties
          THEN /\ Done(p, [err |-> "Property not found"] @@ rec)
               /\ UNCHANGED properties
          ELSE IF properties[propertyId].agentId # userId
          THEN /\ Done(p, [err |-> "You don't have access to this property"] @@ rec)
               /\ UNCHANGED properties
          ELSE LET updated == IF data.given
                              THEN [properties[propertyId] EXCEPT !.tenantId = data.tenantId]
                              ELSE properties[propertyId]
               IN /\ properties' = [properties EXCEPT ![propertyId] = updated]
                  /\ Done(p, [err |-> "", ret |-> Obj(updated)] @@ rec)
    /\ UNCHANGED <<store, reachable, hist, tickets, conn, invoices, inspections>>

----------------------------------------------------------------------------
(* SpecCover: requests run one at a time against a reachable store: an      *)
(* agent and a tenant read their lists, the tenant creates tickets, the     *)
(* agent updates their status and changes who rents the property.           *)

CoverReaders == {<<(<<"a1">>), "AGENT", 0, 0>>, <<(<<"t1">>), "TENANT", 0, 0>>}

CoverUpdaters == {<<(<<"a1">>), "AGENT">>, <<(<<"a2">>), "AGENT">>, <<(<<"t1">>), "TENANT">>}

PropertyData ==
    {[given |-> FALSE, tenantId |-> NoTenant], [given |-> TRUE, tenantId |-> NoTenant],
     [given |-> TRUE, tenantId |-> <<"t1">>]}

NextCover ==
    \/ \E r \in CoverReaders : ListGet("p1", r[1], r[2], r[3], r[4])
    \/ ListFetch("p1")
    \/ GetOrSetSet("p1")
    \/ \E d \in RaceTicketData : CreateTicket("p1", <<"t1">>, "TENANT", d)
    \/ \E i \in 1..MaxTickets, st \in RaceStatuses :
          UpdateTicketStatus("p1", i, <<"a1">>, "AGENT", st)
    \/ InvalidateKeys("p1")
    \/ InvalidateDel("p1")
    \/ \E pr \in {"pr1", "pr9"}, u \in CoverUpdaters, d \in PropertyData :
          UpdateProperty("p1", pr, u[1], u[2], d)

SpecCover == Init /\ [][NextCover]_vars

\* the text is what the list's producer yields for the request now
Fresh(req, text) ==
    LET props == TenantProperties(req.userId)
    IN \E pr \in IF props = {} THEN {"none"} ELSE props :
          text = Stringify(ListProducer(tickets, req, {pr} \cap props))

\* C25: with requests one at a time and the store reachable, after every
\* completed write every cached list entry of a user equals what its
\* producer returns from the tables as they are.
C25_WritePathsCovered ==
    (\A p \in Procs : Free(p)) =>
        \A r \in CoverReaders :
            LET req == ListRequest(r[1], r[2], r[3], r[4])
            IN req.key \in DOMAIN store => Fresh(req, store[req.key].val)

----------------------------------------------------------------------------
(* More properties of RedisClient (SpecConn) *)

\* a getClient call whose connection attempt has failed
Failed(c) ==
    /\ c.op = "getClient" /\ c.pc = "done"
    /\ "err" \in DOMAIN c
    /\ c.err = "connect failed"

\* C26: when a connection attempt of getClient fails, the shared handle is
\* null and isConnecting false as the call rejects; isConnecting is set only
\* while a call is awaiting connect(); and a getClient that finds no open
\* handle and isConnecting clear starts an attempt: it neither waits nor
\* returns a handle.
C26_NoResidue ==
    /\ [](conn.isConnecting <=> \E p \in Procs : call[p].pc = "gc_connect")
    /\ [](\A p \in Procs :
            (call[p].op = "getClient" /\ ~call[p].pre.open /\ ~call[p].pre.isConnecting)
                => call[p].did = "started")
    /\ [][\A p \in Procs :
            (~Failed(call[p]) /\ Failed(call'[p])) =>
                (conn'.client = NoHandle /\ ~conn'.isConnecting)
         ]_vars

\* C26 witness: an attempt has failed, and a getClient called after it,
\* finding the reference null and the flag clear, has started the next one
C26_Witness ==
    \E p, q \in Procs :
        /\ Failed(call[p])
        /\ call[q].op = "getClient" /\ call[q].pc = "gc_connect"
        /\ ~call[q].waited
        /\ call[q].did = "started"
        /\ ~call[q].pre.open /\ ~call[q].pre.isConnecting /\ ~call[q].pre.pending
        /\ conn.handles[call[p].handle].state = "closed"
        /\ call[q].handle > call[p].handle

----------------------------------------------------------------------------
(* SpecWait: callers ask for the handle while the store comes and goes and  *)
(* connections drop.  A new call is taken only while every call in          *)
(* progress can still be given a handle of its own.  The timer of a waiting *)
(* caller fires, and a pending connect() settles.                           *)

Waiting == {p \in Procs : call[p].pc = "gc_wait"}

GetClientNew(p) ==
    /\ Len(conn.handles) + Cardinality(Waiting) < MaxHandles
    /\ GetClient(p)

NextWait ==
    \/ \E p \in Procs : GetClientNew(p)
    \/ \E p \in Procs : GetClientRetry(p)
    \/ \E p \in Procs : ConnectResolves(p)
    \/ \E p \in Procs : ConnectRejects(p)
    \/ ConnectionDrops
    \/ Outage
    \/ Recover

SpecWait ==
    /\ Init
    /\ [][NextWait]_vars
    /\ \A p \in Procs : WF_vars(GetClientRetry(p))
    /\ \A p \in Procs : WF_vars(ConnectResolves(p) \/ ConnectRejects(p))

----------------------------------------------------------------------------
\* C28: the number delPattern returns is the number of keys its batch
\* delete removed from the store, also when matching keys were set, deleted
\* or expired between its enumeration and its delete.
C28_DelPatternCount ==
    [][\A p \in Procs :
          (call[p].pc = "dp_del" /\ call'[p].pc = "done") =>
              call'[p].ret = Cardinality(DOMAIN store \ DOMAIN store')
      ]_vars

----------------------------------------------------------------------------
(* POST /api/tickets: the session, then the limiter, then the body and the *)
(* service, then the answer.                                               *)

PostRoute == "POST /api/tickets"

\* RateLimitConfig.createTicket
CreateTicketLimit == [max |-> 5, window |-> 60]

\* applyRateLimit's `RateLimitConfig[action] || RateLimitConfig.default`, for
\* the one action the route names
RateLimitConfig(action) == CreateTicketLimit

\* the handler up to `await applyRateLimit(session.user.id, "createTicket")`,
\* which is check up to its incr; session is auth()'s result, Null for none
PostTickets(p, session) ==
    IF session = Null
    THEN /\ Free(p)
         /\ Done(p, [op |-> PostRoute, via |-> [route |-> PostRoute, session |-> session],
                     resp |-> [status |-> 401, error |-> "Unauthorized"]])
         /\ UNCHANGED <<store, reachable, hist, tickets, conn, invoices, properties, inspections>>
    ELSE LET config == RateLimitConfig(<<"createTicket">>)
         IN CheckIncrVia(p, session.id, <<"createTicket">>, config.max, config.window,
                         [route |-> PostRoute, session |-> session])

\* the limiter has returned to the handler
Limited(p) ==
    /\ call[p].op = "check"
    /\ call[p].pc = "done"
    /\ call[p].via.route = PostRoute

\* the handler from the limiter's return: the 429 response as it is, or
\* `await request.json()` (body is Null when that throws) and
\* ticketService.createTicket up to its create
PostTicketsBody(p, body) ==
    /\ Limited(p)
    /\ LET c == call[p]
           session == c.via.session
       IN IF c.resp # Null
          THEN /\ Done(p, [op |-> PostRoute, via |-> c.via, resp |-> c.resp])
               /\ UNCHANGED <<store, reachable, hist, tickets, conn, invoices, properties, inspections>>
          ELSE IF body = Null
          THEN /\ Done(p, [op |-> PostRoute, via |-> c.via,
                           resp |-> [status |-> 500, error |-> "Failed to create ticket"]])
               /\ UNCHANGED <<store, reachable, hist, tickets, conn, invoices, properties, inspections>>
          ELSE CreateTicketVia(p, session.id, session.role, body, c.via)

\* the handler's answer to the service's return: the ticket, or the catch
\* block's status for the error
PostTicketsAnswer(p) ==
    /\ call[p].op = "createTicket"
    /\ call[p].pc = "done"
    /\ call[p].via.route = PostRoute
    /\ LET c == call[p]
           resp == IF c.err = ""
                   THEN [status |-> 200, ticket |-> c.ret]
                   ELSE IF c.err = "Only tenants can create tickets"
                   THEN [status |-> 403, error |-> c.err]
                   ELSE IF c.err \in {"You don't have a rented property",
                                      "Title and description are required"}
                   THEN [status |-> 400, error |-> c.err]
                   ELSE [status |-> 500, error |-> "Failed to create ticket"]
       IN Done(p, [op |-> PostRoute, via |-> c.via, resp |-> resp])
    /\ UNCHANGED <<store, reachable, hist, tickets, conn, invoices, properties, inspections>>

\* no request of the caller is under way
Answered(p) == Free(p) /\ call[p].op \notin {"check", "createTicket"}

----------------------------------------------------------------------------
(* SpecPost: one client posts tickets, signed in as a tenant, as an agent  *)
(* or not at all, and between requests reads the agent's list, while the   *)
(* connection comes and goes.                                              *)

PostSessions ==
    {Null, [id |-> <<"t1">>, role |-> "TENANT"], [id |-> <<"a1">>, role |-> "AGENT"]}

PostBodies ==
    {Null, [title |-> "leak", description |-> "tap", isUrgent |-> FALSE],
     [title |-> "", description |-> "tap", isUrgent |-> FALSE]}

PostReaders == {<<(<<"a1">>), "AGENT", 0, 0>>}

NextPost ==
    \/ \E s \in PostSessions : Answered("p1") /\ PostTickets("p1", s)
    \/ CheckExpire("p1")
    \/ \E b \in PostBodies : PostTicketsBody("p1", b)
    \/ InvalidateKeys("p1")
    \/ InvalidateDel("p1")
    \/ PostTicketsAnswer("p1")
    \/ \E r \in PostReaders : Answered("p1") /\ ListGet("p1", r[1], r[2], r[3], r[4])
    \/ ListFetch("p1")
    \/ GetOrSetSet("p1")
    \/ Outage
    \/ Recover

SpecPost == Init /\ [][NextPost]_vars

\* a step of the handler for caller p
Moved(p) == call'[p] # call[p]

\* C29: in POST /api/tickets the limiter comes first: the service is entered
\* only from a returned, allowing check whose increment reached the store
\* whenever the store was reachable; the answer is 429 exactly when the check
\* denied, and that answer changes neither the tickets nor the store; a
\* request without a session is answered 401 with the store untouched.
C29_LimiterBeforeWrite ==
    [][\A p \in Procs :
          /\ (Moved(p) /\ call'[p].op = "createTicket" /\ call[p].op # "createTicket"
              /\ call'[p].via.route = PostRoute)
                => /\ Limited(p)
                   /\ call[p].ret.allowed
                   /\ call[p].up => (call[p].count >= 1 /\ call[p].stored = call[p].count)
          /\ (Moved(p) /\ Limited(p))
                => /\ (call'[p].op = PostRoute /\ call'[p].resp.status = 429)
                          <=> ~call[p].ret.allowed
                   /\ ~call[p].ret.allowed
                          => (tickets' = tickets /\ store' = store
                              /\ call'[p].op # "createTicket")
          /\ (Moved(p) /\ call'[p].op = PostRoute /\ call'[p].resp.status = 429)
                => Limited(p)
          /\ (Moved(p) /\ call'[p].op = PostRoute /\ call'[p].resp.status = 401)
                => /\ call'[p].via.session = Null
                   /\ call[p].op \notin {"check", "createTicket"}
                   /\ store' = store
          /\ (Moved(p) /\ call'[p].op = PostRoute /\ call'[p].via.session = Null)
                => call'[p].resp.status = 401
      ]_vars

\* a sixth request of the minute answered 429 after earlier ones created
\* tickets, with a list still cached
C29_Witness ==
    /\ call["p1"].op = PostRoute
    /\ call["p1"].resp.status = 429
    /\ Len(tickets) >= 1
    /\ \E k \in DOMAIN store :
          \A s \in PostSessions \ {Null} : k # RateLimitKey(s.id, <<"createTicket">>)

----------------------------------------------------------------------------
(* InspectionService: createInspection, scheduleInspection,                *)
(* completeInspection, cancelInspection.  Each of the last three reads the *)
(* row (findById), tests what it read, and then updates the row by id; the *)
(* read and the update are two commands of the relational store.  Dates    *)
(* are whole days.                                                         *)

\* inspectionRepository.findById
FindInspection(id) == IF id \in DOMAIN inspections THEN inspections[id] ELSE Null

\* createInspection; now is the day of the call
CreateInspection(p, userId, role, data, now) ==
    /\ Free(p)
    /\ Len(inspections) < MaxInspections
    /\ LET rec == [op |-> "createInspection",
                   req |-> [userId |-> userId, role |-> role, data |-> data]]
           failed(e) == /\ Done(p, [err |-> e] @@ rec)
                        /\ UNCHANGED inspections
       IN IF role # "AGENT"
          THEN failed("Only agents can create inspections")
          ELSE IF data.propertyId = "" \/ data.availableDates = {}
          THEN failed("Property ID and available dates are required")
          ELSE IF data.propertyId \notin DOMAIN properties
          THEN failed("Property not found")
          ELSE IF properties[data.propertyId].agentId # userId
          THEN failed("You don't have access to this property")
          ELSE IF properties[data.propertyId].tenantId = NoTenant
          THEN failed("Property has no tenant assigned")
          ELSE IF \E d \in data.availableDates : d <= now
          THEN failed("All available dates must be in the future")
          ELSE LET row == [id |-> Len(inspections) + 1,
                           propertyId |-> data.propertyId,
                           tenantId |-> properties[data.propertyId].tenantId,
                           availableDates |-> data.availableDates,
                           scheduledDate |-> <<>>, completedAt |-> <<>>,
                           notes |-> data.notes, status |-> "PENDING_SCHEDULE"]
               IN /\ inspections' = Append(inspections, row)
                  /\ Done(p, [ret |-> Obj(row), err |-> ""] @@ rec)
    /\ UNCHANGED <<store, reachable, hist, tickets, conn, invoices, properties>>

\* the read and the tests of a call that goes on to update the row with upd
InspectionRead(p, rec, inspectionId, e, upd) ==
    /\ Free(p)
    /\ IF e # ""
       THEN Done(p, [err |-> e] @@ rec)
       ELSE call' = [call EXCEPT ![p] =
                       [pc |-> "insp_update", id |-> inspectionId, upd |-> upd, err |-> ""]
                       @@ rec @@ Idle]
    /\ UNCHANGED <<store, reachable, hist, tickets, conn, invoices, properties, inspections>>

\* scheduleInspection up to inspectionRepository.update
ScheduleInspection(p, inspectionId, userId, role, selectedDate) ==
    LET inspection == FindInspection(inspectionId)
        e == IF role # "TENANT" THEN "Only tenants can schedule inspections"
             ELSE IF inspection = Null THEN "Inspection not found"
             ELSE IF inspection.tenantId # userId
             THEN "You don't have access to this inspection"
             ELSE IF inspection.status # "PENDING_SCHEDULE"
             THEN "Inspection is not pending schedule"
             ELSE IF selectedDate \notin inspection.availableDates
             THEN "Selected date is not in the available dates list"
             ELSE ""
    IN InspectionRead(p, [op |-> "scheduleInspection",
                          req |-> [userId |-> userId, role |-> role,
                                   selectedDate |-> selectedDate]],
                      inspectionId, e,
                      [scheduledDate |-> <<selectedDate>>, status |-> "SCHEDULED"])

\* completeInspection up to inspectionRepository.update; notes is Null when
\* left out, now is the day of the call
CompleteInspection(p, inspectionId, userId, role, notes, now) ==
    LET inspection == FindInspection(inspectionId)
        e == IF role # "AGENT" THEN "Only agents can complete inspections"
             ELSE IF inspection = Null THEN "Inspection not found"
             ELSE IF properties[inspection.propertyId].agentId # userId
             THEN "You don't have access to this inspection"
             ELSE IF inspection.status # "SCHEDULED"
             THEN "Inspection must be scheduled before completion"
             ELSE ""
    IN InspectionRead(p, [op |-> "completeInspection",
                          req |-> [userId |-> userId, role |-> role, notes |-> notes]],
                      inspectionId, e,
                      [status |-> "COMPLETED", completedAt |-> <<now>>,
                       notes |-> IF e # "" \/ notes # Null THEN notes
                                 ELSE inspection.notes])

\* cancelInspection up to inspectionRepository.update
CancelInspection(p, inspectionId, userId, role) ==
    LET inspection == FindInspection(inspectionId)
        e == IF inspection = Null THEN "Inspection not found"
             ELSE IF role = "AGENT" /\ properties[inspection.propertyId].agentId # userId
             THEN "You don't have access to this inspection"
             ELSE IF role = "TENANT" /\ inspection.tenantId # userId
             THEN "You don't have access to this inspection"
             ELSE IF inspection.status = "COMPLETED"
             THEN "Cannot cancel a completed inspection"
             ELSE ""
    IN InspectionRead(p, [op |-> "cancelInspection",
                          req |-> [userId |-> userId, role |-> role]],
                      inspectionId, e, [status |-> "CANCELLED"])

\* inspectionRepository.update: the named fields of the row, by id
InspectionUpdate(p) ==
    /\ call[p].pc = "insp_update"
    /\ LET c == call[p]
           row == c.upd @@ inspections[c.id]
       IN /\ inspections' = [inspections EXCEPT ![c.id] = row]
          /\ Done(p, [ret |-> Obj(row)] @@ c)
    /\ UNCHANGED <<store, reachable, hist, tickets, conn, invoices, properties>>

----------------------------------------------------------------------------
(* SpecInspect: the agent and the tenant of one property make, schedule,   *)
(* complete and cancel inspections at the same time.                       *)

InspectionIds == 1..(MaxInspections + 1)

InspectionData ==
    {[propertyId |-> "pr1", availableDates |-> {2, 3}, notes |-> Null],
     [propertyId |-> "pr1", availableDates |-> {1, 2}, notes |-> Null],
     [propertyId |-> "pr1", availableDates |-> {}, notes |-> Null]}

InspectionUsers == {<<(<<"a1">>), "AGENT">>, <<(<<"t1">>), "TENANT">>, <<(<<"t2">>), "TENANT">>}

SelectedDates == {2, 4}

InspectionNotes == {Null, Str("ok")}

\* the day of the calls
Today == 1

NextInspect ==
    \/ \E u \in InspectionUsers, d \in InspectionData :
          CreateInspection("p1", u[1], u[2], d, Today)
    \/ \E p \in Procs, i \in InspectionIds, u \in InspectionUsers, d \in SelectedDates :
          ScheduleInspection(p, i, u[1], u[2], d)
    \/ \E p \in Procs, i \in InspectionIds, u \in InspectionUsers, n \in InspectionNotes :
          CompleteInspection(p, i, u[1], u[2], n, Today)
    \/ \E p \in Procs, i \in InspectionIds, u \in InspectionUsers :
          CancelInspection(p, i, u[1], u[2])
    \/ \E p \in Procs : InspectionUpdate(p)

SpecInspect == Init /\ [][NextInspect]_vars

\* C30: a COMPLETED inspection keeps its status whatever calls interleave,
\* an inspection becomes COMPLETED only from SCHEDULED, and SCHEDULED only
\* from PENDING_SCHEDULE.
C30_CompletedIsFinal ==
    [][\A i \in DOMAIN inspections :
          LET was == inspections[i].status
              is == inspections'[i].status
          IN /\ was = "COMPLETED" => is = "COMPLETED"
             /\ (is = "COMPLETED" /\ was # "COMPLETED") => was = "SCHEDULED"
             /\ (is = "SCHEDULED" /\ was # "SCHEDULED") => was = "PENDING_SCHEDULE"
      ]_vars

============================================================================
